---- MODULE Spec2Model ----
(***************************************************************************)
(* A model of use-storage-persisted-state: the StorageSyncManager of       *)
(* storage.ts (listener registry, storage-event path, shared polling       *)
(* timer, snapshot cache), the write and read paths of the hook and of     *)
(* storagePersistedState.ts, and the built-in codecs.                      *)
(*                                                                         *)
(* One engine (localStorageSync) over one medium (window.localStorage) in  *)
(* a browser (typeof window !== "undefined").  The host is part of the     *)
(* state: the medium's entries and the host's active interval timers.      *)
(***************************************************************************)
EXTENDS Integers, Sequences, FiniteSets, TLC

\* ------------------------------------------------------------------ bounds
MaxCallbacks == 2

Keys == {"k1", "k2"}
Callbacks == 1..MaxCallbacks

\* ------------------------------------------------------- JS null/undefined
\* getItem of a missing key, and an absent codec result.  No stored string
\* of the model equals one of these two tokens.
Null == "<null>"
\* Map.prototype.get of a missing key.
Undefined == "<undefined>"

\* ListenerOptions.pollingIntervalMs === null (polling disabled).  Every
\* enabled interval is positive (normalizePollingInterval), so 0 is free.
NullMs == 0
\* pollingIntervalId === null.  The code tests the handle by truthiness, and
\* the host never hands out 0.
NoTimer == 0
\* The constructor's default for defaultPollingIntervalMs.
DefaultPollingIntervalMs == 2000

VARIABLES
    storage,                 \* window.localStorage: [Keys -> string or Null]
    listeners,               \* Map<string, Map<callback, ListenerOptions>>, in insertion order
    pollingIntervalId,       \* the engine's timer handle, or NoTimer
    pollingIntervalMsActive, \* the interval of that timer, or NullMs
    snapshotCache,           \* Map<string, string | null>: a function on the keys it holds
    timers,                  \* the host's active interval timers: {[id, ms, elapsed]}
    seen,                    \* per callback: the raw value its hook last read from the adapter
    op,                      \* what the last operation did (calls made, timers started and stopped)
    others,                  \* the engines of the other media: [medium -> [storage, listeners]]
    closures,                \* the unsubscribe closures a client holds: {[key, cb, called]}
    behaviour,               \* per callback: what the function does when it is called
    hooks,                   \* per callback: its hook's default, codec, refs and value
    shadow                   \* the fallback adapter: its in-memory overrides, the primary's state

vars == <<storage, listeners, pollingIntervalId, pollingIntervalMsActive,
          snapshotCache, timers, seen, op, others, closures, behaviour,
          hooks, shadow>>

\* --------------------------------------------------------------- sequences
RECURSIVE SelectIdx(_, _, _)
\* The least index i >= from of s with s[i].f = x under the test below, or 0.
SelectIdx(s, from, x) ==
    IF from > Len(s) THEN 0
    ELSE IF s[from] = x THEN from
    ELSE SelectIdx(s, from + 1, x)

RemoveAt(s, i) == SubSeq(s, 1, i - 1) \o SubSeq(s, i + 1, Len(s))

RECURSIVE Flatten(_)
Flatten(ss) == IF ss = <<>> THEN <<>> ELSE Head(ss) \o Flatten(Tail(ss))

Range(s) == {s[i] : i \in DOMAIN s}

\* A Map<string, _> as a function on the keys it holds.
EmptyMap == [k \in {} |-> Null]
MapPut(m, k, v) == [x \in DOMAIN m \cup {k} |-> IF x = k THEN v ELSE m[x]]
MapGet(m, k) == IF k \in DOMAIN m THEN m[k] ELSE Undefined

\* ------------------------------------------------------ the listener maps
\* listeners is a sequence of [key, cbs]; cbs a sequence of
\* [cb, crossTabSync, pollingIntervalMs]: both Maps iterate in insertion order.
KeyIdx(ls, key) == SelectIdx([i \in DOMAIN ls |-> ls[i].key], 1, key)
Has(ls, key) == KeyIdx(ls, key) # 0
Get(ls, key) == IF Has(ls, key) THEN ls[KeyIdx(ls, key)].cbs ELSE <<>>
CbIdx(cbs, cb) == SelectIdx([i \in DOMAIN cbs |-> cbs[i].cb], 1, cb)

\* Map.set(callback, options): a new callback goes last, a callback already
\* in the map keeps its place and gets the new options.
\* (MapSet_append: a variant that adds an entry whether or not the callback
\* is in the map.)
MapSet_append(cbs, entry) == Append(cbs, entry)
MapSet(cbs, entry) ==
    IF CbIdx(cbs, entry.cb) = 0 THEN Append(cbs, entry)
    ELSE [cbs EXCEPT ![CbIdx(cbs, entry.cb)] = entry]

\* Map.delete(callback).
MapDelete(cbs, cb) ==
    IF CbIdx(cbs, cb) = 0 THEN cbs ELSE RemoveAt(cbs, CbIdx(cbs, cb))

\* ------------------------------------------------------------ the engine
\* The engine's fields and the host's timers as one record, so that the
\* methods below are functions from record to record.
\* started: the intervals setInterval was called with, stopped: the handles
\* clearInterval was called with, both during the operation in progress.
Engine ==
    [listeners |-> listeners,
     pollingIntervalId |-> pollingIntervalId,
     pollingIntervalMsActive |-> pollingIntervalMsActive,
     snapshotCache |-> snapshotCache,
     timers |-> timers,
     started |-> <<>>,
     stopped |-> <<>>]

\* normalizePollingInterval.  A request is [tag, n]: tag "undefined", "null",
\* "NaN" or "num" (the number n).
Req(tag, n) == [tag |-> tag, n |-> n]

\* A variant of normalizePollingInterval without the guard on non-positive
\* and not-a-number requests.
normalizePollingInterval_noGuard(p) ==
    IF p.tag = "null" THEN NullMs
    ELSE IF p.tag = "undefined" THEN DefaultPollingIntervalMs
    ELSE p.n

normalizePollingInterval(p) ==
    IF p.tag = "null" THEN NullMs
    ELSE IF p.tag = "undefined" THEN DefaultPollingIntervalMs
    ELSE IF p.tag = "NaN" \/ p.n <= 0 THEN NullMs
    ELSE p.n

\* options.crossTabSync ?? true.  A request is "undefined", "true" or "false".
crossTabSyncOrDefault(c) == IF c = "undefined" THEN TRUE ELSE c = "true"

AllOptions(ls) == Flatten([i \in DOMAIN ls |-> ls[i].cbs])

RECURSIVE MinOver(_, _)
MinOver(opts, minInterval) ==
    IF opts = <<>> THEN minInterval
    ELSE IF Head(opts).pollingIntervalMs = NullMs THEN MinOver(Tail(opts), minInterval)
    ELSE IF minInterval = NullMs \/ Head(opts).pollingIntervalMs < minInterval
         THEN MinOver(Tail(opts), Head(opts).pollingIntervalMs)
    ELSE MinOver(Tail(opts), minInterval)

getMinPollingIntervalMs(ls) == MinOver(AllOptions(ls), NullMs)

\* The host's clearInterval: the timer with that handle, if any, is gone.
clearInterval(e, id) ==
    [e EXCEPT !.timers = {t \in e.timers : t.id # id},
              !.stopped = Append(e.stopped, id)]

\* The handle the host's setInterval returns: one that no active timer has
\* and that is not the handle it returned last (the engine's, just cleared).
FreshTimerId(e) ==
    CHOOSE id \in 1..(Cardinality(e.timers) + 2) :
        /\ id # e.pollingIntervalId
        /\ \A t \in e.timers : t.id # id

\* The host's setInterval(handler, ms), and the engine keeping its handle.
setInterval(e, ms) ==
    LET id == FreshTimerId(e) IN
    [e EXCEPT !.timers = e.timers \cup {[id |-> id, ms |-> ms, elapsed |-> 0]},
              !.started = Append(e.started, ms),
              !.pollingIntervalId = id]

\* Variants of updatePollingInterval that the scheduler properties tell apart
\* from it: one never replaces a running timer, one starts the new timer and
\* leaves the old one running, one restarts the timer on every call.
updatePollingInterval_keepRunning(e) ==
    LET nextInterval == getMinPollingIntervalMs(e.listeners) IN
    IF nextInterval = NullMs THEN
        LET e1 == IF e.pollingIntervalId # NoTimer
                  THEN clearInterval(e, e.pollingIntervalId) ELSE e
        IN [e1 EXCEPT !.pollingIntervalId = NoTimer,
                      !.pollingIntervalMsActive = NullMs,
                      !.snapshotCache = EmptyMap]
    ELSE IF e.pollingIntervalId # NoTimer THEN e
    ELSE [setInterval(e, nextInterval) EXCEPT !.pollingIntervalMsActive = nextInterval]

updatePollingInterval_noClear(e) ==
    LET nextInterval == getMinPollingIntervalMs(e.listeners) IN
    IF nextInterval = NullMs THEN
        [e EXCEPT !.pollingIntervalId = NoTimer,
                  !.pollingIntervalMsActive = NullMs,
                  !.snapshotCache = EmptyMap]
    ELSE IF e.pollingIntervalId # NoTimer /\ e.pollingIntervalMsActive = nextInterval
    THEN e
    ELSE [setInterval(e, nextInterval) EXCEPT !.pollingIntervalMsActive = nextInterval]

updatePollingInterval_alwaysRestart(e) ==
    LET nextInterval == getMinPollingIntervalMs(e.listeners) IN
    IF nextInterval = NullMs THEN
        LET e1 == IF e.pollingIntervalId # NoTimer
                  THEN clearInterval(e, e.pollingIntervalId) ELSE e
        IN [e1 EXCEPT !.pollingIntervalId = NoTimer,
                      !.pollingIntervalMsActive = NullMs,
                      !.snapshotCache = EmptyMap]
    ELSE
        LET e1 == IF e.pollingIntervalId # NoTimer
                  THEN clearInterval(e, e.pollingIntervalId) ELSE e
            e2 == setInterval(e1, nextInterval)
        IN [e2 EXCEPT !.pollingIntervalMsActive = nextInterval]

\* A variant that stops the timer and keeps the snapshot cache when nothing
\* is left to poll.
updatePollingInterval_keepCache(e) ==
    LET nextInterval == getMinPollingIntervalMs(e.listeners) IN
    IF nextInterval = NullMs THEN
        LET e1 == IF e.pollingIntervalId # NoTimer
                  THEN clearInterval(e, e.pollingIntervalId) ELSE e
        IN [e1 EXCEPT !.pollingIntervalId = NoTimer,
                      !.pollingIntervalMsActive = NullMs]
    ELSE IF e.pollingIntervalId # NoTimer /\ e.pollingIntervalMsActive = nextInterval
    THEN e
    ELSE
        LET e1 == IF e.pollingIntervalId # NoTimer
                  THEN clearInterval(e, e.pollingIntervalId) ELSE e
            e2 == setInterval(e1, nextInterval)
        IN [e2 EXCEPT !.pollingIntervalMsActive = nextInterval]

updatePollingInterval(e) ==
    LET nextInterval == getMinPollingIntervalMs(e.listeners) IN
    IF nextInterval = NullMs THEN
        LET e1 == IF e.pollingIntervalId # NoTimer
                  THEN clearInterval(e, e.pollingIntervalId) ELSE e
        IN [e1 EXCEPT !.pollingIntervalId = NoTimer,
                      !.pollingIntervalMsActive = NullMs,
                      !.snapshotCache = EmptyMap]
    ELSE IF e.pollingIntervalId # NoTimer /\ e.pollingIntervalMsActive = nextInterval
    THEN e
    ELSE
        LET e1 == IF e.pollingIntervalId # NoTimer
                  THEN clearInterval(e, e.pollingIntervalId) ELSE e
            e2 == setInterval(e1, nextInterval)
        IN [e2 EXCEPT !.pollingIntervalMsActive = nextInterval]

\* subscribe(key, callback, options), up to the return of the closure.
subscribe(e, key, cb, crossTabSync, pollingIntervalMs) ==
    LET ls0 == IF Has(e.listeners, key) THEN e.listeners
               ELSE Append(e.listeners, [key |-> key, cbs |-> <<>>])
        listenerOptions == [cb |-> cb,
                            crossTabSync |-> crossTabSyncOrDefault(crossTabSync),
                            pollingIntervalMs |-> normalizePollingInterval(pollingIntervalMs)]
        i == KeyIdx(ls0, key)
        ls1 == [ls0 EXCEPT ![i].cbs = MapSet(ls0[i].cbs, listenerOptions)]
    IN updatePollingInterval([e EXCEPT !.listeners = ls1])

\* A variant of the unsubscribe closure that leaves the callback in the key's
\* map and only recomputes the timer.
unsubscribe_noDelete(e, key, cb) == updatePollingInterval(e)

\* A variant of the unsubscribe closure that leaves the key's map in the
\* registry when its last callback goes.
unsubscribe_keepKey(e, key, cb) ==
    LET i == KeyIdx(e.listeners, key)
        ls1 == IF i = 0 THEN e.listeners
               ELSE [e.listeners EXCEPT ![i].cbs = MapDelete(e.listeners[i].cbs, cb)]
    IN updatePollingInterval([e EXCEPT !.listeners = ls1])

\* The closure subscribe returns.
unsubscribe(e, key, cb) ==
    LET i == KeyIdx(e.listeners, key)
        ls1 == IF i = 0 THEN e.listeners
               ELSE [e.listeners EXCEPT ![i].cbs = MapDelete(e.listeners[i].cbs, cb)]
        ls2 == IF i # 0 /\ ls1[i].cbs = <<>> THEN RemoveAt(ls1, i) ELSE ls1
    IN updatePollingInterval([e EXCEPT !.listeners = ls2])

\* --------------------------------------------------------------- JS values
JNull == [t |-> "null"]
JUndefined == [t |-> "undefined"]
JBool(b) == [t |-> "boolean", b |-> b]
JNum(n) == [t |-> "number", k |-> "finite", n |-> n]
JNaN == [t |-> "number", k |-> "NaN", n |-> 0]
JInfinity == [t |-> "number", k |-> "Infinity", n |-> 1]
JNegInfinity == [t |-> "number", k |-> "Infinity", n |-> -1]
JStr(s) == [t |-> "string", s |-> s]
\* The object {n: i}.
JObj(i) == [t |-> "object", n |-> i]
\* What a codec's decode leaves behind when it raises.
Throw == [t |-> "throw"]

\* The finite numbers and the texts of the model.
Ints == {-42, 0, 1, 2}
Texts == {"a", "b", ""}

Digits == <<"0", "1", "2", "3", "4", "5", "6", "7", "8", "9">>
RECURSIVE NatToString(_)
NatToString(n) ==
    IF n < 10 THEN Digits[n + 1] ELSE NatToString(n \div 10) \o Digits[(n % 10) + 1]
IntToString(n) == IF n < 0 THEN "-" \o NatToString(-n) ELSE NatToString(n)

\* String(value).
StringOf(v) ==
    CASE v.t = "number" /\ v.k = "NaN" -> "NaN"
      [] v.t = "number" /\ v.k = "Infinity" -> IF v.n > 0 THEN "Infinity" ELSE "-Infinity"
      [] v.t = "number" /\ v.k = "finite" -> IntToString(v.n)
      [] v.t = "boolean" -> IF v.b THEN "true" ELSE "false"
      [] v.t = "string" -> v.s
      [] v.t = "null" -> "null"
      [] v.t = "undefined" -> "undefined"
      [] v.t = "object" -> "[object Object]"

\* Number(text), on the texts of the model: the decimal numerals of Ints,
\* the empty text (0), the two infinities; anything else is NaN.
ToNumber(s) ==
    IF s = "" THEN JNum(0)
    ELSE IF s = "Infinity" THEN JInfinity
    ELSE IF s = "-Infinity" THEN JNegInfinity
    ELSE IF \E n \in Ints : IntToString(n) = s
         THEN JNum(CHOOSE n \in Ints : IntToString(n) = s)
    ELSE JNaN

\* The truthiness of a value (value ? _ : _).
Truthy(v) ==
    CASE v.t = "boolean" -> v.b
      [] v.t = "number" -> v.k = "Infinity" \/ (v.k = "finite" /\ v.n # 0)
      [] v.t = "string" -> v.s # ""
      [] v.t = "object" -> TRUE
      [] OTHER -> FALSE

Quote(s) == "\"" \o s \o "\""
ObjText(i) == "{\"n\":" \o IntToString(i) \o "}"

\* JSON.stringify(value): a non-finite number is written as null, undefined
\* has no text.
JSONstringify(v) ==
    CASE v.t = "number" /\ v.k = "finite" -> IntToString(v.n)
      [] v.t = "number" /\ v.k # "finite" -> "null"
      [] v.t = "boolean" -> IF v.b THEN "true" ELSE "false"
      [] v.t = "string" -> Quote(v.s)
      [] v.t = "null" -> "null"
      [] v.t = "object" -> ObjText(v.n)
      [] v.t = "undefined" -> Undefined

\* JSON.parse(text), on the texts of the model; Throw for a SyntaxError.
JSONparse(s) ==
    IF s = "null" THEN JNull
    ELSE IF s = "true" THEN JBool(TRUE)
    ELSE IF s = "false" THEN JBool(FALSE)
    ELSE IF \E n \in Ints : IntToString(n) = s
         THEN JNum(CHOOSE n \in Ints : IntToString(n) = s)
    ELSE IF \E x \in Texts : Quote(x) = s
         THEN JStr(CHOOSE x \in Texts : Quote(x) = s)
    ELSE IF \E n \in Ints : ObjText(n) = s
         THEN JObj(CHOOSE n \in Ints : ObjText(n) = s)
    ELSE Throw

\* ------------------------------------------------------------------ codecs
Codecs == {"JsonCodec", "StringCodec", "BooleanCodec", "NumberCodec"}

JsonCodec_encode(value) == IF value = JNull THEN Null ELSE JSONstringify(value)
\* A variant of the decode that swallows the SyntaxError.
JsonCodec_decode_swallow(value) ==
    IF value = Null THEN JUndefined
    ELSE IF JSONparse(value) = Throw THEN JUndefined
    ELSE JSONparse(value)
JsonCodec_decode(value) == IF value = Null THEN JNull ELSE JSONparse(value)

StringCodec_encode(value) ==
    IF value \in {JNull, JUndefined} THEN Null
    ELSE IF value.t = "string" THEN value.s
    ELSE StringOf(value)
StringCodec_decode(value) == IF value = Null THEN JNull ELSE JStr(value)

BooleanCodec_encode(value) == IF Truthy(value) THEN "true" ELSE "false"
BooleanCodec_decode(value) == JBool(value = "true")

NumberCodec_encode(value) == IF value = JNull THEN Null ELSE StringOf(value)
\* A variant of the decode without the three literals: a text Number()
\* reads as NaN decodes to undefined.
NumberCodec_decode_noLiterals(value) ==
    IF value = Null \/ value = "" THEN JUndefined
    ELSE IF ToNumber(value) = JNaN THEN JUndefined
    ELSE ToNumber(value)
NumberCodec_decode(value) ==
    IF value = Null THEN JNull
    ELSE IF value = "NaN" THEN JNaN
    ELSE IF value = "Infinity" THEN JInfinity
    ELSE IF value = "-Infinity" THEN JNegInfinity
    ELSE IF value = "" THEN JNull
    ELSE IF ToNumber(value) = JNaN THEN JNull
    ELSE ToNumber(value)

\* codec.encode(value): a string, Null or Undefined.
Encode(codec, value) ==
    CASE codec = "JsonCodec" -> JsonCodec_encode(value)
      [] codec = "StringCodec" -> StringCodec_encode(value)
      [] codec = "BooleanCodec" -> BooleanCodec_encode(value)
      [] codec = "NumberCodec" -> NumberCodec_encode(value)

\* codec.decode(raw): a value, or Throw.
Decode(codec, raw) ==
    CASE codec = "JsonCodec" -> JsonCodec_decode(raw)
      [] codec = "StringCodec" -> StringCodec_decode(raw)
      [] codec = "BooleanCodec" -> BooleanCodec_decode(raw)
      [] codec = "NumberCodec" -> NumberCodec_decode(raw)

inferCodec(defaultValue) ==
    CASE defaultValue.t = "boolean" -> "BooleanCodec"
      [] defaultValue.t = "number" -> "NumberCodec"
      [] defaultValue.t = "string" -> "StringCodec"
      [] OTHER -> "JsonCodec"

\* resolveCodec(key, valueHint, options): options.codec ("" when absent), or
\* the codec inferred from the hint.
resolveCodec(valueHint, optionsCodec) ==
    IF optionsCodec # "" THEN optionsCodec ELSE inferCodec(valueHint)

\* ------------------------------------------------------ notification passes
\* The predicate notifyListeners is called with: none (notify), the
\* crossTabSync option (notifyCrossTab), polling enabled (notifyPolling).
Passes(predicate, options) ==
    CASE predicate = "all" -> TRUE
      [] predicate = "crossTab" -> options.crossTabSync
      [] predicate = "polling" -> options.pollingIntervalMs # NullMs

\* cb(): the callback is the store-change handler of a hook on `key`, which
\* reads adapter.getItem(key) (getSnapshot) from the medium as it is now.
Invoke(entry, key, s) == [cb |-> entry.cb, read |-> s[key]]

RECURSIVE forEachListener(_, _, _, _)
forEachListener(cbs, key, predicate, s) ==
    IF cbs = <<>> THEN <<>>
    ELSE (IF Passes(predicate, Head(cbs)) THEN <<Invoke(Head(cbs), key, s)>> ELSE <<>>)
         \o forEachListener(Tail(cbs), key, predicate, s)

\* A variant of notifyListeners that walks the callbacks of every key.
notifyListeners_everyKey(ls, key, predicate, s) ==
    forEachListener(AllOptions(ls), key, predicate, s)

\* notifyListeners(key, predicate): the calls made, in order.
notifyListeners(ls, key, predicate, s) == forEachListener(Get(ls, key), key, predicate, s)

\* A variant of notify that passes over the callbacks without cross-tab sync.
notify_crossTabOnly(ls, key, s) == notifyListeners(ls, key, "crossTab", s)

notify(ls, key, s) == notifyListeners(ls, key, "all", s)
\* Variants of the two filtered passes that drop the filter.
notifyCrossTab_all(ls, key, s) == notifyListeners(ls, key, "all", s)
notifyPolling_all(ls, key, s) == notifyListeners(ls, key, "all", s)

notifyCrossTab(ls, key, s) == notifyListeners(ls, key, "crossTab", s)
notifyPolling(ls, key, s) == notifyListeners(ls, key, "polling", s)

\* A variant of the listener that notifies every callback of the key.
onStorageEvent_notify(ls, key, s) == IF Has(ls, key) THEN notify(ls, key, s) ELSE <<>>

\* The "storage" event listener of the constructor (e.key is a key).
onStorageEvent(ls, key, s) == IF Has(ls, key) THEN notifyCrossTab(ls, key, s) ELSE <<>>

\* The interval handler: listeners.forEach from entry i on.  reads: the keys
\* storage.getItem was called with, in order.
RECURSIVE pollKeys(_, _, _, _)
pollKeys(ls, i, cache, s) ==
    IF i > Len(ls) THEN [snapshotCache |-> cache, calls |-> <<>>, reads |-> <<>>]
    ELSE
        LET key == ls[i].key
            shouldPoll == \E j \in DOMAIN ls[i].cbs : ls[i].cbs[j].pollingIntervalMs # NullMs
            currentValue == s[key]
            lastValue == MapGet(cache, key)
            changed == shouldPoll /\ currentValue # lastValue
            cache1 == IF changed THEN MapPut(cache, key, currentValue) ELSE cache
            rest == pollKeys(ls, i + 1, cache1, s)
        IN [snapshotCache |-> rest.snapshotCache,
            calls |-> (IF changed THEN notifyPolling(ls, key, s) ELSE <<>>) \o rest.calls,
            reads |-> (IF shouldPoll THEN <<key>> ELSE <<>>) \o rest.reads]

\* A variant of the handler that polls every key of the registry, whatever
\* the options of its observers.
RECURSIVE pollKeys_everyKey(_, _, _, _)
pollKeys_everyKey(ls, i, cache, s) ==
    IF i > Len(ls) THEN [snapshotCache |-> cache, calls |-> <<>>, reads |-> <<>>]
    ELSE
        LET key == ls[i].key
            changed == s[key] # MapGet(cache, key)
            cache1 == IF changed THEN MapPut(cache, key, s[key]) ELSE cache
            rest == pollKeys_everyKey(ls, i + 1, cache1, s)
        IN [snapshotCache |-> rest.snapshotCache,
            calls |-> (IF changed THEN notifyPolling(ls, key, s) ELSE <<>>) \o rest.calls,
            reads |-> <<key>> \o rest.reads]
onInterval_everyKey(ls, cache, s) == pollKeys_everyKey(ls, 1, cache, s)

\* A variant of the handler that takes a missing snapshot entry for the
\* value the key holds: it records the value and calls nobody.
RECURSIVE pollKeys_seedQuietly(_, _, _, _)
pollKeys_seedQuietly(ls, i, cache, s) ==
    IF i > Len(ls) THEN [snapshotCache |-> cache, calls |-> <<>>, reads |-> <<>>]
    ELSE
        LET key == ls[i].key
            shouldPoll == \E j \in DOMAIN ls[i].cbs : ls[i].cbs[j].pollingIntervalMs # NullMs
            currentValue == s[key]
            seeded == key \in DOMAIN cache
            changed == shouldPoll /\ seeded /\ currentValue # cache[key]
            cache1 == IF shouldPoll /\ (changed \/ ~seeded)
                      THEN MapPut(cache, key, currentValue) ELSE cache
            rest == pollKeys_seedQuietly(ls, i + 1, cache1, s)
        IN [snapshotCache |-> rest.snapshotCache,
            calls |-> (IF changed THEN notifyPolling(ls, key, s) ELSE <<>>) \o rest.calls,
            reads |-> (IF shouldPoll THEN <<key>> ELSE <<>>) \o rest.reads]

onInterval_seedQuietly(ls, cache, s) == pollKeys_seedQuietly(ls, 1, cache, s)

onInterval(ls, cache, s) == pollKeys(ls, 1, cache, s)

\* ------------------------------------------------------------- write paths
\* The adapter (window.localStorage).
getItem(s, key) == s[key]
setItem(s, key, value) == [s EXCEPT ![key] = value]
removeItem(s, key) == [s EXCEPT ![key] = Null]

\* What a setter is called with: a value, or an updater function.
Val(v) == [kind |-> "value", v |-> v, f |-> ""]
Fn(f) == [kind |-> "fn", v |-> JUndefined, f |-> f]

\* The updater of the tests: (prev) => (prev ?? 0) + 1, on a number or null.
ApplyUpdater(f, prev) ==
    IF prev \in {JNull, JUndefined} THEN JNum(1)
    ELSE IF prev.t = "number" /\ prev.k = "finite" THEN JNum(prev.n + 1)
    ELSE prev

\* A variant of the try block that takes the base for the current value
\* whatever the medium holds.
commit_staleBase(s, key, codec, base, newValueOrFn) ==
    LET newValue == IF newValueOrFn.kind = "fn"
                    THEN ApplyUpdater(newValueOrFn.f, base) ELSE newValueOrFn.v
        encoded == Encode(codec, newValue)
    IN IF newValue \in {JUndefined, JNull} \/ encoded \in {Null, Undefined}
       THEN [storage |-> removeItem(s, key), ok |-> TRUE]
       ELSE [storage |-> setItem(s, key, encoded), ok |-> TRUE]

\* The body of the try block the setters share, up to the adapter call:
\* ok is FALSE when codec.decode raised (the catch logs and returns).
commit(s, key, codec, base, newValueOrFn) ==
    LET currentRaw == getItem(s, key)
        current == IF currentRaw # Null THEN Decode(codec, currentRaw) ELSE base
        newValue == IF newValueOrFn.kind = "fn"
                    THEN ApplyUpdater(newValueOrFn.f, current) ELSE newValueOrFn.v
        encoded == Encode(codec, newValue)
    IN IF current = Throw THEN [storage |-> s, ok |-> FALSE]
       ELSE IF newValue \in {JUndefined, JNull}
            THEN [storage |-> removeItem(s, key), ok |-> TRUE]
       ELSE IF encoded \in {Null, Undefined}
            THEN [storage |-> removeItem(s, key), ok |-> TRUE]
       ELSE [storage |-> setItem(s, key, encoded), ok |-> TRUE]

\* syncManager.notify(key) as the statement after the adapter call: the
\* callbacks run against the medium as the adapter call left it.
\* A variant that notifies before the adapter call.
notifyBeforeWrite(ls, key, before, after) == notify(ls, key, before)

notifyAfterWrite(ls, key, before, after) == notify(ls, key, after)

\* setStoragePersistedState(key, newValueOrFn, options); optionsCodec is ""
\* when options.codec is absent.
setStoragePersistedState(s, ls, key, optionsCodec, newValueOrFn) ==
    LET codec == IF newValueOrFn.kind = "value"
                 THEN resolveCodec(newValueOrFn.v, optionsCodec)
                 ELSE IF optionsCodec # "" THEN optionsCodec ELSE "JsonCodec"
        w == commit(s, key, codec, JNull, newValueOrFn)
    IN [storage |-> w.storage, ok |-> w.ok, codec |-> codec,
        calls |-> IF w.ok THEN notifyAfterWrite(ls, key, s, w.storage) ELSE <<>>]

\* The hook's codec: options.codec, or inferred from defaultValue (useMemo).
hookCodec(defaultValue, optionsCodec) ==
    IF optionsCodec # "" THEN optionsCodec ELSE inferCodec(defaultValue)

\* The hook's setValue(newValueOrFn).
setValue(s, ls, key, defaultValue, optionsCodec, newValueOrFn) ==
    LET codec == hookCodec(defaultValue, optionsCodec)
        w == commit(s, key, codec, defaultValue, newValueOrFn)
    IN [storage |-> w.storage, ok |-> w.ok, codec |-> codec,
        calls |-> IF w.ok THEN notifyAfterWrite(ls, key, s, w.storage) ELSE <<>>]

\* The hook's removeItem().
hookRemoveItem(s, ls, key) ==
    LET s1 == removeItem(s, key)
    IN [storage |-> s1, ok |-> TRUE, codec |-> "",
        calls |-> notifyAfterWrite(ls, key, s, s1)]

\* A variant of the read without the try/catch around codec.decode.
readStoragePersistedState_noCatch(s, key, defaultValue, optionsCodec) ==
    LET codec == resolveCodec(defaultValue, optionsCodec)
        raw == getItem(s, key)
    IN IF raw = Null /\ defaultValue # JUndefined THEN defaultValue
       ELSE Decode(codec, raw)

\* readStoragePersistedState(key, defaultValue, options).
readStoragePersistedState(s, key, defaultValue, optionsCodec) ==
    LET codec == resolveCodec(defaultValue, optionsCodec)
        raw == getItem(s, key)
    IN IF raw = Null /\ defaultValue # JUndefined THEN defaultValue
       ELSE IF Decode(codec, raw) = Throw THEN defaultValue
       ELSE Decode(codec, raw)

\* ------------------------------------------------------------------ actions
SetEngine(e) ==
    /\ listeners' = e.listeners
    /\ pollingIntervalId' = e.pollingIntervalId
    /\ pollingIntervalMsActive' = e.pollingIntervalMsActive
    /\ snapshotCache' = e.snapshotCache
    /\ timers' = e.timers

engineVars == <<listeners, pollingIntervalId, pollingIntervalMsActive, snapshotCache, timers>>

\* The rest of the host: the other engines, the closures held, the callbacks.
hostVars == <<others, closures, behaviour, hooks, shadow>>

\* The media besides window.localStorage, in the order their engines were
\* constructed (and so in the order their "storage" listeners run).
OtherMedia == <<"sessionStorage", "memory">>

\* The "storage" listeners of the other engines, run for an event on `key`.
otherEngineCalls(os, key) ==
    Flatten([i \in DOMAIN OtherMedia |->
                onStorageEvent(os[OtherMedia[i]].listeners, key, os[OtherMedia[i]].storage)])

\* The record of an operation: its name, key and callback; the callbacks it
\* invoked; the timers it started and stopped; for a write path, the codec,
\* the argument, the string the key held before and whether the try block
\* ran to its end.
Op(name, key, cb, calls, started, stopped, codec, arg, prev, ok) ==
    [name |-> name, key |-> key, cb |-> cb, calls |-> calls, started |-> started,
     stopped |-> stopped, codec |-> codec, arg |-> arg, prev |-> prev, ok |-> ok]

NoArg == [kind |-> "", v |-> JUndefined, f |-> ""]

\* What each hook has read once the calls were made.
SeenAfter(sn, calls) ==
    [c \in Callbacks |->
        IF \E i \in DOMAIN calls : calls[i].cb = c
        THEN calls[CHOOSE i \in DOMAIN calls :
                      calls[i].cb = c /\ \A j \in DOMAIN calls : calls[j].cb = c => j <= i].read
        ELSE sn[c]]

Registered(ls, key, cb) == CbIdx(Get(ls, key), cb) # 0
RegisteredAnywhere(ls, cb) == \E k \in Keys : Registered(ls, k, cb)
\* cb is registered with the engine of another medium.
RegisteredElsewhere(os, cb) ==
    \E m \in DOMAIN os : RegisteredAnywhere(os[m].listeners, cb)

\* A hook on `key` mounts (or re-renders with new options): it reads its
\* snapshot and useSyncExternalStore subscribes its store-change handler.
Subscribe(key, cb, crossTabSync, pollingIntervalMs) ==
    LET e == subscribe(Engine, key, cb, crossTabSync, pollingIntervalMs) IN
    /\ SetEngine(e)
    /\ seen' = [seen EXCEPT ![cb] = getItem(storage, key)]
    /\ op' = Op("subscribe", key, cb, <<>>, e.started, e.stopped, "", NoArg, Undefined, TRUE)
    /\ UNCHANGED <<storage, hostVars>>

\* A variant of the unmount that also deletes the key from the medium.
Unsubscribe_clearKey(key, cb) ==
    LET e == unsubscribe(Engine, key, cb) IN
    /\ SetEngine(e)
    /\ storage' = removeItem(storage, key)
    /\ seen' = [seen EXCEPT ![cb] = Undefined]
    /\ op' = Op("unsubscribe", key, cb, <<>>, e.started, e.stopped, "", NoArg, Undefined, TRUE)
    /\ UNCHANGED hostVars

\* The hook unmounts: React calls the closure subscribe returned.
Unsubscribe(key, cb) ==
    LET e == unsubscribe(Engine, key, cb) IN
    /\ SetEngine(e)
    /\ seen' = [seen EXCEPT ![cb] = Undefined]
    /\ op' = Op("unsubscribe", key, cb, <<>>, e.started, e.stopped, "", NoArg, Undefined, TRUE)
    /\ UNCHANGED <<storage, hostVars>>

\* A write path ran: r is what it left behind.
Written(name, key, arg, r) ==
    /\ storage' = r.storage
    /\ seen' = SeenAfter(seen, r.calls)
    /\ op' = Op(name, key, 0, r.calls, <<>>, <<>>, r.codec, arg, storage[key], r.ok)
    /\ UNCHANGED <<engineVars, hostVars>>

SetValue(key, defaultValue, optionsCodec, newValueOrFn) ==
    Written("setValue", key, newValueOrFn,
            setValue(storage, listeners, key, defaultValue, optionsCodec, newValueOrFn))

RemoveItem(key) ==
    Written("removeItem", key, NoArg, hookRemoveItem(storage, listeners, key))

SetStoragePersistedState(key, optionsCodec, newValueOrFn) ==
    Written("setStoragePersistedState", key, newValueOrFn,
            setStoragePersistedState(storage, listeners, key, optionsCodec, newValueOrFn))

\* The medium changes outside the library's write paths: DevTools, a direct
\* window.localStorage call, another tab.  raw is a string, or Null (removed).
ExternalWrite(key, raw) ==
    /\ storage[key] # raw
    /\ storage' = [storage EXCEPT ![key] = raw]
    /\ op' = Op("external", key, 0, <<>>, <<>>, <<>>, "", NoArg, storage[key], TRUE)
    /\ UNCHANGED <<engineVars, seen, hostVars>>

\* The browser delivers a "storage" event for `key`, changed in the medium
\* `area` by another context, to every listener of the window: the engine's
\* and then those of the engines of the other media.
StorageEventIn(area, key) ==
    LET calls == onStorageEvent(listeners, key, storage) \o otherEngineCalls(others, key) IN
    /\ seen' = SeenAfter(seen, calls)
    /\ op' = Op(IF area = "localStorage" THEN "storageEvent" ELSE "storageEventElsewhere",
                key, 0, calls, <<>>, <<>>, "", NoArg, Undefined, TRUE)
    /\ UNCHANGED <<engineVars, storage, hostVars>>

\* A "storage" event for `key` of window.localStorage.
StorageEvent(key) == StorageEventIn("localStorage", key)

Remaining(t) == t.ms - t.elapsed

\* Time passes by d, short of the next firing of any timer.
Wait(d) ==
    /\ timers # {}
    /\ \A t \in timers : d < Remaining(t)
    /\ timers' = {[t EXCEPT !.elapsed = t.elapsed + d] : t \in timers}
    /\ op' = Op("wait", "", 0, <<>>, <<>>, <<>>, "", NoArg, Undefined, TRUE)
    /\ UNCHANGED <<storage, listeners, pollingIntervalId, pollingIntervalMsActive,
                   snapshotCache, seen, hostVars>>

\* Time passes until timer t, the next one due, fires: the interval handler runs.
Tick(t) ==
    /\ t \in timers
    /\ \A u \in timers : Remaining(t) <= Remaining(u)
    /\ LET r == onInterval(listeners, snapshotCache, storage) IN
        /\ snapshotCache' = r.snapshotCache
        /\ seen' = SeenAfter(seen, r.calls)
        /\ op' = Op("tick", "", 0, r.calls, <<>>, <<>>, "", NoArg, Undefined, TRUE)
    /\ timers' = {IF u = t THEN [u EXCEPT !.elapsed = 0]
                  ELSE [u EXCEPT !.elapsed = u.elapsed + Remaining(t)] : u \in timers}
    /\ UNCHANGED <<storage, listeners, pollingIntervalId, pollingIntervalMsActive, hostVars>>

\* ------------------------------------------------------------ other media
\* An engine of another medium, with the registry ls and no polling observer.
EngineOf(ls) ==
    [listeners |-> ls, pollingIntervalId |-> NoTimer, pollingIntervalMsActive |-> NullMs,
     snapshotCache |-> EmptyMap, timers |-> {}, started |-> <<>>, stopped |-> <<>>]

\* subscribe on the engine of the volatile medium: the medium has neither
\* cross-context events nor polling, so the registration has cross-tab sync
\* off and polling disabled whatever was requested.
memorySubscribe(ls, key, cb, crossTabSync, pollingIntervalMs) ==
    subscribe(EngineOf(ls), key, cb, "false", Req("null", 0)).listeners

\* subscribe on the engine of medium m, for an observer that does not poll.
subscribeIn(m, ls, key, cb, crossTabSync) ==
    IF m = "memory" THEN memorySubscribe(ls, key, cb, crossTabSync, Req("null", 0))
    ELSE subscribe(EngineOf(ls), key, cb, crossTabSync, Req("null", 0)).listeners

\* A hook with storageType m mounts on `key`.
MountIn(m, key, cb, crossTabSync) ==
    /\ ~RegisteredAnywhere(listeners, cb) /\ ~RegisteredElsewhere(others, cb)
    /\ others' = [others EXCEPT ![m].listeners =
                      subscribeIn(m, others[m].listeners, key, cb, crossTabSync)]
    /\ seen' = [seen EXCEPT ![cb] = getItem(others[m].storage, key)]
    /\ op' = Op("subscribeElsewhere", key, cb, <<>>, <<>>, <<>>, "", NoArg, Undefined, TRUE)
    /\ UNCHANGED <<engineVars, storage, closures, behaviour, hooks, shadow>>

\* A hook with storageType m unmounts.
UnmountIn(m, key, cb) ==
    /\ Registered(others[m].listeners, key, cb)
    /\ others' = [others EXCEPT ![m].listeners =
                      unsubscribe(EngineOf(others[m].listeners), key, cb).listeners]
    /\ seen' = [seen EXCEPT ![cb] = Undefined]
    /\ op' = Op("unsubscribeElsewhere", key, cb, <<>>, <<>>, <<>>, "", NoArg, Undefined, TRUE)
    /\ UNCHANGED <<engineVars, storage, closures, behaviour, hooks, shadow>>

\* The setter of a hook with storageType m is called.
SetValueIn(m, key, defaultValue, optionsCodec, newValueOrFn) ==
    LET r == setValue(others[m].storage, others[m].listeners, key,
                      defaultValue, optionsCodec, newValueOrFn) IN
    /\ others' = [others EXCEPT ![m].storage = r.storage]
    /\ seen' = SeenAfter(seen, r.calls)
    /\ op' = Op("setValueElsewhere", key, 0, r.calls, <<>>, <<>>, r.codec, newValueOrFn,
                others[m].storage[key], r.ok)
    /\ UNCHANGED <<engineVars, storage, closures, behaviour, hooks, shadow>>

\* A variant of getSyncManager that returns the local engine whatever the
\* storage type.
getSyncManager_localOnly(storageType) == "localStorage"

\* getSyncManager(storageType): the medium of the engine it returns.
getSyncManager(storageType) ==
    IF storageType = "sessionStorage" THEN "sessionStorage"
    ELSE IF storageType = "memory" THEN "memory"
    ELSE "localStorage"

\* syncManager.storage and the registry of the engine of medium m.
MediumOf(m) ==
    IF m = "localStorage" THEN [storage |-> storage, listeners |-> listeners]
    ELSE others[m]

\* The media after the adapter of medium m was left holding s.
StoredIn(m, s) ==
    /\ storage' = IF m = "localStorage" THEN s ELSE storage
    /\ others' = IF m = "localStorage" THEN others ELSE [others EXCEPT ![m].storage = s]

\* setStoragePersistedState(key, newValueOrFn, {storageType, codec}); op.prev
\* is the storage type asked for.
SetStateOn(storageType, key, optionsCodec, newValueOrFn) ==
    LET e == MediumOf(getSyncManager(storageType))
        r == setStoragePersistedState(e.storage, e.listeners, key, optionsCodec, newValueOrFn)
    IN /\ StoredIn(getSyncManager(storageType), r.storage)
       /\ seen' = SeenAfter(seen, r.calls)
       /\ op' = Op("setStateOn", key, 0, r.calls, <<>>, <<>>, r.codec, newValueOrFn,
                   storageType, r.ok)
       /\ UNCHANGED <<engineVars, closures, behaviour, hooks, shadow>>

\* removeItem of a hook useStoragePersistedState(key, d, {storageType}).
RemoveItemOn(storageType, key) ==
    LET e == MediumOf(getSyncManager(storageType))
        r == hookRemoveItem(e.storage, e.listeners, key)
    IN /\ StoredIn(getSyncManager(storageType), r.storage)
       /\ seen' = SeenAfter(seen, r.calls)
       /\ op' = Op("removeItemOn", key, 0, r.calls, <<>>, <<>>, "", NoArg, storageType, TRUE)
       /\ UNCHANGED <<engineVars, closures, behaviour, hooks, shadow>>

\* ----------------------------------------------------- clients of the engine
\* A client calls subscribe(key, callback, options) and keeps the closure it
\* returns.  The callback may be one the registry holds already.
SubscribeClient(key, cb, crossTabSync, pollingIntervalMs) ==
    LET e == subscribe(Engine, key, cb, crossTabSync, pollingIntervalMs) IN
    /\ SetEngine(e)
    /\ closures' = closures \cup {[key |-> key, cb |-> cb, called |-> FALSE]}
    /\ op' = Op("subscribe", key, cb, <<>>, e.started, e.stopped, "", NoArg, Undefined, TRUE)
    /\ UNCHANGED <<storage, seen, others, behaviour, hooks, shadow>>

\* The client calls a closure it holds, for the first time or again.
CallClosure(c) ==
    LET e == unsubscribe(Engine, c.key, c.cb) IN
    /\ c \in closures
    /\ SetEngine(e)
    /\ closures' = (closures \ {c}) \cup {[c EXCEPT !.called = TRUE]}
    /\ op' = Op(IF c.called THEN "unsubscribeAgain" ELSE "unsubscribe",
                c.key, c.cb, <<>>, e.started, e.stopped, "", NoArg, Undefined, TRUE)
    /\ UNCHANGED <<storage, seen, others, behaviour, hooks, shadow>>

\* -------------------------------------------------- callbacks of any kind
\* What a callback does when it is called: it reads its value ("read", the
\* hook's handler), raises ("throw"), calls its own closure
\* ("unsubscribeSelf"), calls the closure of the other callback under the
\* key ("unsubscribeOther"), or subscribes the other callback under the key
\* ("subscribeOther").
Behaviours == {"read", "throw", "unsubscribeSelf", "unsubscribeOther", "subscribeOther"}

\* The other callback a callback acts on.
Other(cb) == (cb % MaxCallbacks) + 1

\* The engine once callback cb, registered under key, has run.
effect(e, key, cb, b) ==
    CASE b = "unsubscribeSelf" -> unsubscribe(e, key, cb)
      [] b = "unsubscribeOther" -> unsubscribe(e, key, Other(cb))
      [] b = "subscribeOther" -> subscribe(e, key, Other(cb), "undefined", Req("null", 0))
      [] OTHER -> e

\* How many of the first i entries of a map are still entries of it, given
\* the identities then and now: where a forEach over the live map goes on.
Survivors(before, i, now) ==
    Cardinality({j \in 1..i : \E n \in DOMAIN now : now[n] = before[j]})

\* notifyListeners over the live map: Map.prototype.forEach visits the
\* entries the map holds when it gets to them, so an entry deleted before
\* its turn is passed over and an entry added during the pass is visited;
\* an exception of cb() ends the forEach and propagates.  `calls` are the
\* invocations made so far.
RECURSIVE livePass(_, _, _, _, _, _, _)
livePass(e, key, predicate, s, beh, i, calls) ==
    LET cbs == Get(e.listeners, key) IN
    IF i > Len(cbs) THEN [e |-> e, calls |-> calls, thrown |-> FALSE]
    ELSE IF ~Passes(predicate, cbs[i]) THEN livePass(e, key, predicate, s, beh, i + 1, calls)
    ELSE IF beh[cbs[i].cb] = "throw"
         THEN [e |-> e, calls |-> Append(calls, Invoke(cbs[i], key, s)), thrown |-> TRUE]
    ELSE
        LET e1 == effect(e, key, cbs[i].cb, beh[cbs[i].cb])
            now == Get(e1.listeners, key)
            next == Survivors([j \in DOMAIN cbs |-> cbs[j].cb], i,
                              [j \in DOMAIN now |-> now[j].cb]) + 1
        IN livePass(e1, key, predicate, s, beh, next, Append(calls, Invoke(cbs[i], key, s)))

\* notifyListeners when no callback changes the registry: the callbacks are
\* called in insertion order up to the first one that raises.
RECURSIVE passUntilThrow(_, _, _, _, _, _, _)
passUntilThrow(cbs, key, predicate, s, beh, i, calls) ==
    IF i > Len(cbs) THEN [calls |-> calls, thrown |-> FALSE]
    ELSE IF ~Passes(predicate, cbs[i]) THEN passUntilThrow(cbs, key, predicate, s, beh, i + 1, calls)
    ELSE IF beh[cbs[i].cb] = "throw"
         THEN [calls |-> Append(calls, Invoke(cbs[i], key, s)), thrown |-> TRUE]
    ELSE passUntilThrow(cbs, key, predicate, s, beh, i + 1, Append(calls, Invoke(cbs[i], key, s)))

\* The interval handler when no callback changes the registry: an
\* exception of a callback ends the handler, after the cache entry of the
\* callback's key was set.
RECURSIVE tickUntilThrow(_, _, _, _, _, _)
tickUntilThrow(ls, i, cache, s, beh, calls) ==
    IF i > Len(ls) THEN [snapshotCache |-> cache, calls |-> calls, thrown |-> FALSE]
    ELSE
        LET key == ls[i].key
            shouldPoll == \E j \in DOMAIN ls[i].cbs : ls[i].cbs[j].pollingIntervalMs # NullMs
            currentValue == s[key]
            lastValue == MapGet(cache, key)
            r == passUntilThrow(ls[i].cbs, key, "polling", s, beh, 1, calls)
        IN IF ~shouldPoll \/ currentValue = lastValue
           THEN tickUntilThrow(ls, i + 1, cache, s, beh, calls)
           ELSE IF r.thrown
           THEN [snapshotCache |-> MapPut(cache, key, currentValue), calls |-> r.calls,
                 thrown |-> TRUE]
           ELSE tickUntilThrow(ls, i + 1, MapPut(cache, key, currentValue), s, beh, r.calls)

\* A client subscribes a callback of behaviour b that the registry does not hold.
MountBehaving(key, cb, b, crossTabSync, pollingIntervalMs) ==
    LET e == subscribe(Engine, key, cb, crossTabSync, pollingIntervalMs) IN
    /\ ~RegisteredAnywhere(listeners, cb) /\ ~RegisteredElsewhere(others, cb)
    /\ SetEngine(e)
    /\ behaviour' = [behaviour EXCEPT ![cb] = b]
    /\ seen' = [seen EXCEPT ![cb] = getItem(storage, key)]
    /\ op' = Op("subscribe", key, cb, <<>>, e.started, e.stopped, "", NoArg, Undefined, TRUE)
    /\ UNCHANGED <<storage, others, closures, hooks, shadow>>

\* setStoragePersistedState(key, value) with callbacks of any kind under
\* the key: the adapter call, then notify(key); the setter's catch takes an
\* exception of a callback.
WritePass(key, newValueOrFn) ==
    LET w == commit(storage, key, "StringCodec", JNull, newValueOrFn)
        r == livePass(Engine, key, "all", w.storage, behaviour, 1, <<>>)
    IN /\ storage' = w.storage
       /\ SetEngine(r.e)
       /\ seen' = SeenAfter(seen, r.calls)
       /\ op' = Op("writePass", key, 0, r.calls, r.e.started, r.e.stopped, "StringCodec",
                   newValueOrFn, storage[key], ~r.thrown)
       /\ UNCHANGED hostVars

\* A "storage" event for `key` with callbacks of any kind under the key.
EventPass(key) ==
    LET r == IF Has(listeners, key)
             THEN livePass(Engine, key, "crossTab", storage, behaviour, 1, <<>>)
             ELSE [e |-> Engine, calls |-> <<>>, thrown |-> FALSE]
    IN /\ SetEngine(r.e)
       /\ seen' = SeenAfter(seen, r.calls)
       /\ op' = Op("eventPass", key, 0, r.calls, r.e.started, r.e.stopped, "", NoArg,
                   Undefined, ~r.thrown)
       /\ UNCHANGED <<storage, hostVars>>

\* The timer fires with callbacks in the registry that read or raise.
TickPass(t) ==
    /\ t \in timers
    /\ \A u \in timers : Remaining(t) <= Remaining(u)
    /\ \A cb \in Callbacks :
          RegisteredAnywhere(listeners, cb) => behaviour[cb] \in {"read", "throw"}
    /\ LET r == tickUntilThrow(listeners, 1, snapshotCache, storage, behaviour, <<>>) IN
        /\ snapshotCache' = r.snapshotCache
        /\ seen' = SeenAfter(seen, r.calls)
        /\ op' = Op("tickPass", "", 0, r.calls, <<>>, <<>>, "", NoArg, Undefined, ~r.thrown)
    /\ timers' = {IF u = t THEN [u EXCEPT !.elapsed = 0]
                  ELSE [u EXCEPT !.elapsed = u.elapsed + Remaining(t)] : u \in timers}
    /\ UNCHANGED <<storage, listeners, pollingIntervalId, pollingIntervalMsActive, hostVars>>

\* A hook mounts asking for the polling interval pollingIntervalMs; op.arg
\* is the request.
MountRequesting(key, cb, pollingIntervalMs) ==
    LET e == subscribe(Engine, key, cb, "undefined", pollingIntervalMs) IN
    /\ ~RegisteredAnywhere(listeners, cb) /\ ~RegisteredElsewhere(others, cb)
    /\ SetEngine(e)
    /\ seen' = [seen EXCEPT ![cb] = getItem(storage, key)]
    /\ op' = Op("subscribe", key, cb, <<>>, e.started, e.stopped, "",
                [kind |-> "request", v |-> pollingIntervalMs, f |-> ""], Undefined, TRUE)
    /\ UNCHANGED <<storage, hostVars>>

\* The timer fires, with the handler's reads of the adapter on record:
\* op.prev is the sequence of keys it read.
PollTick(t) ==
    /\ t \in timers
    /\ \A u \in timers : Remaining(t) <= Remaining(u)
    /\ LET r == onInterval(listeners, snapshotCache, storage) IN
        /\ snapshotCache' = r.snapshotCache
        /\ seen' = SeenAfter(seen, r.calls)
        /\ op' = Op("poll", "", 0, r.calls, <<>>, <<>>, "", NoArg, r.reads, TRUE)
    /\ timers' = {IF u = t THEN [u EXCEPT !.elapsed = 0]
                  ELSE [u EXCEPT !.elapsed = u.elapsed + Remaining(t)] : u \in timers}
    /\ UNCHANGED <<storage, listeners, pollingIntervalId, pollingIntervalMsActive, hostVars>>

\* subscribe(key, cb, {crossTabSync, pollingIntervalMs}) is called, whether
\* or not cb is registered; op.arg is the options asked for.
SubscribeRequesting(key, cb, crossTabSync, pollingIntervalMs) ==
    LET e == subscribe(Engine, key, cb, crossTabSync, pollingIntervalMs) IN
    /\ ~RegisteredElsewhere(others, cb)
    /\ SetEngine(e)
    /\ seen' = [seen EXCEPT ![cb] = getItem(storage, key)]
    /\ op' = Op("subscribe", key, cb, <<>>, e.started, e.stopped, "",
                [kind |-> "request",
                 v |-> [crossTabSync |-> crossTabSync, pollingIntervalMs |-> pollingIntervalMs],
                 f |-> ""], Undefined, TRUE)
    /\ UNCHANGED <<storage, hostVars>>

\* --------------------------------------------------------------- reading
\* A caller outside React calls readStoragePersistedState(key, defaultValue,
\* options): the medium and the engine stay as they are; op.arg is the
\* default and op.codec the resolved codec.
ReadState(key, defaultValue, optionsCodec) ==
    /\ op' = Op("read", key, 0, <<>>, <<>>, <<>>, resolveCodec(defaultValue, optionsCodec),
                Val(defaultValue), storage[key], TRUE)
    /\ op' # op
    /\ UNCHANGED <<storage, engineVars, seen, hostVars>>

\* ------------------------------------------------------- calls of a codec
\* codec.encode(value) is called: op.arg is the value, op.prev the result.
EncodeValue(codec, value) ==
    /\ op' = Op("encode", "", 0, <<>>, <<>>, <<>>, codec, Val(value), Encode(codec, value), TRUE)
    /\ op' # op
    /\ UNCHANGED <<storage, engineVars, seen, hostVars>>

\* codec.decode(raw) is called: op.prev is the text, op.arg the result, and
\* op.ok is FALSE when the call raised.
DecodeText(codec, raw) ==
    /\ op' = Op("decode", "", 0, <<>>, <<>>, <<>>, codec, Val(Decode(codec, raw)), raw,
                Decode(codec, raw) # Throw)
    /\ op' # op
    /\ UNCHANGED <<storage, engineVars, seen, hostVars>>

\* ------------------------------------------------------------ initial state
\* A callback that is not the handler of a mounted hook.
NoHook ==
    [defaultValue |-> JUndefined, codec |-> "", lastRaw |-> Null, lastParsed |-> JUndefined,
     value |-> JUndefined]

\* The fallback adapter with no override and a primary that takes writes.
NoShadow == [memory |-> [k \in Keys |-> Undefined], full |-> FALSE, failing |-> FALSE]

\* ------------------------------------------------------- the hook's view
\* getSnapshot of the hook h (its default, codec and the refs lastRaw and
\* lastParsed) reading raw from the adapter: h with the value returned and
\* the refs as the call leaves them.
getSnapshot(raw, h) ==
    IF raw = Null /\ h.defaultValue # JUndefined THEN [h EXCEPT !.value = h.defaultValue]
    ELSE IF raw = h.lastRaw
         THEN [h EXCEPT !.value = IF h.lastParsed = JUndefined THEN JNull ELSE h.lastParsed]
    ELSE IF Decode(h.codec, raw) = Throw THEN [h EXCEPT !.value = h.defaultValue]
    ELSE [h EXCEPT !.lastRaw = raw, !.lastParsed = Decode(h.codec, raw),
                   !.value = Decode(h.codec, raw)]

\* The hooks once React has re-read the snapshot of every hook whose
\* store-change handler was called.
ReadAll(hs, calls) ==
    [c \in Callbacks |->
        IF \E i \in DOMAIN calls : calls[i].cb = c
        THEN getSnapshot(SeenAfter([x \in Callbacks |-> Null], calls)[c], hs[c])
        ELSE hs[c]]

\* The refs of the hook h once its setValue(newValueOrFn) has run on the
\* medium s: untouched when codec.decode raised, else set before the adapter
\* call to what is written.
setValueRefs(s, key, h, newValueOrFn) ==
    LET currentRaw == getItem(s, key)
        current == IF currentRaw # Null THEN Decode(h.codec, currentRaw) ELSE h.defaultValue
        newValue == IF newValueOrFn.kind = "fn"
                    THEN ApplyUpdater(newValueOrFn.f, current) ELSE newValueOrFn.v
    IN IF current = Throw THEN h
       ELSE IF newValue \in {JUndefined, JNull}
            THEN [h EXCEPT !.lastRaw = Null, !.lastParsed = JUndefined]
       ELSE [h EXCEPT !.lastRaw = Encode(h.codec, newValue), !.lastParsed = newValue]

\* A hook useStoragePersistedState(key, defaultValue, options) mounts: it
\* renders (getSnapshot) and subscribes its store-change handler cb.
MountHook(key, cb, defaultValue, optionsCodec, pollingIntervalMs) ==
    LET e == subscribe(Engine, key, cb, "undefined", pollingIntervalMs)
        h == [NoHook EXCEPT !.defaultValue = defaultValue,
                            !.codec = hookCodec(defaultValue, optionsCodec)]
    IN /\ ~RegisteredAnywhere(listeners, cb) /\ ~RegisteredElsewhere(others, cb)
       /\ SetEngine(e)
       /\ hooks' = [hooks EXCEPT ![cb] = getSnapshot(getItem(storage, key), h)]
       /\ seen' = [seen EXCEPT ![cb] = getItem(storage, key)]
       /\ op' = Op("subscribe", key, cb, <<>>, e.started, e.stopped, "", NoArg, Undefined, TRUE)
       /\ UNCHANGED <<storage, others, closures, behaviour, shadow>>

UnmountHook(key, cb) ==
    LET e == unsubscribe(Engine, key, cb) IN
    /\ Registered(listeners, key, cb)
    /\ SetEngine(e)
    /\ hooks' = [hooks EXCEPT ![cb] = NoHook]
    /\ seen' = [seen EXCEPT ![cb] = Undefined]
    /\ op' = Op("unsubscribe", key, cb, <<>>, e.started, e.stopped, "", NoArg, Undefined, TRUE)
    /\ UNCHANGED <<storage, others, closures, behaviour, shadow>>

\* The setter of the hook cb on `key` is called.
HookSetValue(key, cb, newValueOrFn) ==
    LET h == hooks[cb]
        r == setValue(storage, listeners, key, h.defaultValue, h.codec, newValueOrFn)
    IN /\ Registered(listeners, key, cb)
       /\ storage' = r.storage
       /\ hooks' = ReadAll([hooks EXCEPT ![cb] = setValueRefs(storage, key, h, newValueOrFn)],
                           r.calls)
       /\ seen' = SeenAfter(seen, r.calls)
       /\ op' = Op("setValue", key, cb, r.calls, <<>>, <<>>, r.codec, newValueOrFn,
                   storage[key], r.ok)
       /\ UNCHANGED <<engineVars, others, closures, behaviour, shadow>>

\* removeItem of the hook cb on `key` is called.
HookRemoveItem(key, cb) ==
    LET r == hookRemoveItem(storage, listeners, key) IN
    /\ Registered(listeners, key, cb)
    /\ storage' = r.storage
    /\ hooks' = ReadAll([hooks EXCEPT ![cb].lastRaw = Null, ![cb].lastParsed = JUndefined],
                        r.calls)
    /\ seen' = SeenAfter(seen, r.calls)
    /\ op' = Op("removeItem", key, cb, r.calls, <<>>, <<>>, "", NoArg, storage[key], TRUE)
    /\ UNCHANGED <<engineVars, others, closures, behaviour, shadow>>

\* A "storage" event for `key` of window.localStorage reaches the hooks.
EventView(key) ==
    LET calls == onStorageEvent(listeners, key, storage) IN
    /\ hooks' = ReadAll(hooks, calls)
    /\ seen' = SeenAfter(seen, calls)
    /\ op' = Op("storageEvent", key, 0, calls, <<>>, <<>>, "", NoArg, Undefined, TRUE)
    /\ UNCHANGED <<engineVars, storage, others, closures, behaviour, shadow>>

\* The timer fires and the hooks it notifies re-read.
TickView(t) ==
    /\ t \in timers
    /\ \A u \in timers : Remaining(t) <= Remaining(u)
    /\ LET r == onInterval(listeners, snapshotCache, storage) IN
        /\ snapshotCache' = r.snapshotCache
        /\ hooks' = ReadAll(hooks, r.calls)
        /\ seen' = SeenAfter(seen, r.calls)
        /\ op' = Op("tick", "", 0, r.calls, <<>>, <<>>, "", NoArg, Undefined, TRUE)
    /\ timers' = {IF u = t THEN [u EXCEPT !.elapsed = 0]
                  ELSE [u EXCEPT !.elapsed = u.elapsed + Remaining(t)] : u \in timers}
    /\ UNCHANGED <<storage, listeners, pollingIntervalId, pollingIntervalMsActive,
                   others, closures, behaviour, shadow>>

\* --------------------------------------------------- the fallback adapter
\* The fallback-wrapping adapter composes the durable medium p (primary) and
\* the in-memory overrides sh.memory (secondary).  sh.full: the primary
\* rejects writes with a capacity error; sh.failing: the primary's delete
\* raises.
\* A variant of the read that prefers the primary's entry to the override.
Visible_primaryFirst(p, sh) ==
    [k \in Keys |-> IF p[k] # Null THEN p[k]
                    ELSE IF sh.memory[k] # Undefined THEN sh.memory[k] ELSE Null]

\* adapter.getItem for every key: the override if there is one, else the
\* primary's entry.
Visible(p, sh) ==
    [k \in Keys |-> IF sh.memory[k] # Undefined THEN sh.memory[k] ELSE p[k]]

\* A variant of the write that drops the override of a key whose write
\* the primary rejected.
fallbackSetItem_dropped(p, sh, key, value) ==
    IF sh.full
    THEN [storage |-> p, shadow |-> [sh EXCEPT !.memory[key] = Undefined]]
    ELSE [storage |-> setItem(p, key, value),
          shadow |-> [sh EXCEPT !.memory[key] = Undefined]]

\* A variant of the write that leaves the override in place when the
\* primary accepted the write.
fallbackSetItem_keepOverride(p, sh, key, value) ==
    IF sh.full
    THEN [storage |-> p, shadow |-> [sh EXCEPT !.memory[key] = value]]
    ELSE [storage |-> setItem(p, key, value), shadow |-> sh]

\* adapter.setItem: the primary is tried; when it accepts, the override of
\* the key is cleared, when it rejects, the value goes to the override.
fallbackSetItem(p, sh, key, value) ==
    IF sh.full
    THEN [storage |-> p, shadow |-> [sh EXCEPT !.memory[key] = value]]
    ELSE [storage |-> setItem(p, key, value),
          shadow |-> [sh EXCEPT !.memory[key] = Undefined]]

\* A variant of the delete that stops at a failing primary delete.
fallbackRemoveItem_primaryOnly(p, sh, key) ==
    IF sh.failing THEN [storage |-> p, shadow |-> sh]
    ELSE [storage |-> removeItem(p, key),
          shadow |-> [sh EXCEPT !.memory[key] = Undefined]]

\* adapter.removeItem: the primary's delete is tried, and the override of the
\* key is deleted whether or not it failed.
fallbackRemoveItem(p, sh, key) ==
    [storage |-> IF sh.failing THEN p ELSE removeItem(p, key),
     shadow |-> [sh EXCEPT !.memory[key] = Undefined]]

\* The durable medium starts or stops rejecting writes and deletes.
SetQuota(full, failing) ==
    /\ shadow' = [shadow EXCEPT !.full = full, !.failing = failing]
    /\ shadow' # shadow
    /\ op' = Op("quota", "", 0, <<>>, <<>>, <<>>, "", NoArg, Undefined, TRUE)
    /\ UNCHANGED <<storage, engineVars, seen, others, closures, behaviour, hooks>>

\* A hook mounts on an engine whose adapter is the fallback-wrapping one.
MountFallback(key, cb, defaultValue, optionsCodec) ==
    LET e == subscribe(Engine, key, cb, "undefined", Req("null", 0))
        h == [NoHook EXCEPT !.defaultValue = defaultValue,
                            !.codec = hookCodec(defaultValue, optionsCodec)]
        raw == getItem(Visible(storage, shadow), key)
    IN /\ ~RegisteredAnywhere(listeners, cb) /\ ~RegisteredElsewhere(others, cb)
       /\ SetEngine(e)
       /\ hooks' = [hooks EXCEPT ![cb] = getSnapshot(raw, h)]
       /\ seen' = [seen EXCEPT ![cb] = raw]
       /\ op' = Op("subscribe", key, cb, <<>>, e.started, e.stopped, "", NoArg, Undefined, TRUE)
       /\ UNCHANGED <<storage, others, closures, behaviour, shadow>>

\* The setter of the hook cb on `key` is called; the adapter calls of the
\* try block go to the fallback-wrapping adapter.  op.prev is the durable
\* medium's entry and the override before the call.
SetValueFallback(key, cb, newValueOrFn) ==
    LET h == hooks[cb]
        before == Visible(storage, shadow)
        w == commit(before, key, h.codec, h.defaultValue, newValueOrFn)
        a == IF ~w.ok THEN [storage |-> storage, shadow |-> shadow]
             ELSE IF w.storage[key] = Null THEN fallbackRemoveItem(storage, shadow, key)
             ELSE fallbackSetItem(storage, shadow, key, w.storage[key])
        calls == IF w.ok
                 THEN notifyAfterWrite(listeners, key, before, Visible(a.storage, a.shadow))
                 ELSE <<>>
    IN /\ Registered(listeners, key, cb)
       /\ storage' = a.storage
       /\ shadow' = a.shadow
       /\ hooks' = ReadAll([hooks EXCEPT ![cb] = setValueRefs(before, key, h, newValueOrFn)],
                           calls)
       /\ seen' = SeenAfter(seen, calls)
       /\ op' = Op("setValue", key, cb, calls, <<>>, <<>>, h.codec, newValueOrFn,
                   [primary |-> storage[key], override |-> shadow.memory[key]], w.ok)
       /\ UNCHANGED <<engineVars, others, closures, behaviour>>

\* removeItem of the hook cb on `key` is called on the fallback-wrapping
\* adapter.
RemoveItemFallback(key, cb) ==
    LET a == fallbackRemoveItem(storage, shadow, key)
        calls == notifyAfterWrite(listeners, key, Visible(storage, shadow),
                                  Visible(a.storage, a.shadow))
    IN /\ Registered(listeners, key, cb)
       /\ storage' = a.storage
       /\ shadow' = a.shadow
       /\ hooks' = ReadAll([hooks EXCEPT ![cb].lastRaw = Null, ![cb].lastParsed = JUndefined],
                           calls)
       /\ seen' = SeenAfter(seen, calls)
       /\ op' = Op("removeItem", key, cb, calls, <<>>, <<>>, "", NoArg,
                   [primary |-> storage[key], override |-> shadow.memory[key]], TRUE)
       /\ UNCHANGED <<engineVars, others, closures, behaviour>>

\* ------------------------------------------------- a medium that is full
\* A variant of the try block whose failures stay inside it, so that the
\* statement after the adapter call runs.
commitQuota_swallowInside(s, key, codec, base, newValueOrFn, full) ==
    [storage |-> s, ok |-> TRUE]

\* The try block the setters share, on window.localStorage with its quota
\* exhausted or not: setItem raises on a full medium, as codec.decode does
\* on a text it cannot read, and the catch logs and returns (ok is FALSE).
commitQuota(s, key, codec, base, newValueOrFn, full) ==
    LET currentRaw == getItem(s, key)
        current == IF currentRaw # Null THEN Decode(codec, currentRaw) ELSE base
        newValue == IF newValueOrFn.kind = "fn"
                    THEN ApplyUpdater(newValueOrFn.f, current) ELSE newValueOrFn.v
        encoded == Encode(codec, newValue)
    IN IF current = Throw THEN [storage |-> s, ok |-> FALSE]
       ELSE IF newValue \in {JUndefined, JNull} \/ encoded \in {Null, Undefined}
            THEN [storage |-> removeItem(s, key), ok |-> TRUE]
       ELSE IF full THEN [storage |-> s, ok |-> FALSE]
       ELSE [storage |-> setItem(s, key, encoded), ok |-> TRUE]

\* setStoragePersistedState(key, newValueOrFn, options) on such a medium.
setStateQuota(s, ls, key, optionsCodec, newValueOrFn, full) ==
    LET codec == IF newValueOrFn.kind = "value"
                 THEN resolveCodec(newValueOrFn.v, optionsCodec)
                 ELSE IF optionsCodec # "" THEN optionsCodec ELSE "JsonCodec"
        w == commitQuota(s, key, codec, JNull, newValueOrFn, full)
    IN [storage |-> w.storage, ok |-> w.ok, codec |-> codec,
        calls |-> IF w.ok THEN notifyAfterWrite(ls, key, s, w.storage) ELSE <<>>]

\* The hook's setValue(newValueOrFn) on such a medium.
setValueQuota(s, ls, key, defaultValue, codec, newValueOrFn, full) ==
    LET w == commitQuota(s, key, codec, defaultValue, newValueOrFn, full)
    IN [storage |-> w.storage, ok |-> w.ok, codec |-> codec,
        calls |-> IF w.ok THEN notifyAfterWrite(ls, key, s, w.storage) ELSE <<>>]

\* setStoragePersistedState is called while the medium is full or not.
SetStateQuota(key, optionsCodec, newValueOrFn) ==
    LET r == setStateQuota(storage, listeners, key, optionsCodec, newValueOrFn, shadow.full)
    IN /\ storage' = r.storage
       /\ hooks' = ReadAll(hooks, r.calls)
       /\ seen' = SeenAfter(seen, r.calls)
       /\ op' = Op("setStoragePersistedState", key, 0, r.calls, <<>>, <<>>, r.codec,
                   newValueOrFn, storage[key], r.ok)
       /\ UNCHANGED <<engineVars, others, closures, behaviour, shadow>>

\* The setter of the hook cb on `key` is called while the medium is full or
\* not; the refs are set before the adapter call.
HookSetValueQuota(key, cb, newValueOrFn) ==
    LET h == hooks[cb]
        r == setValueQuota(storage, listeners, key, h.defaultValue, h.codec, newValueOrFn,
                           shadow.full)
    IN /\ Registered(listeners, key, cb)
       /\ storage' = r.storage
       /\ hooks' = ReadAll([hooks EXCEPT ![cb] = setValueRefs(storage, key, h, newValueOrFn)],
                           r.calls)
       /\ seen' = SeenAfter(seen, r.calls)
       /\ op' = Op("setValue", key, cb, r.calls, <<>>, <<>>, r.codec, newValueOrFn,
                   storage[key], r.ok)
       /\ UNCHANGED <<engineVars, others, closures, behaviour, shadow>>

\* ---------------------------------------------------------- specifications
Init ==
    /\ storage = [k \in Keys |-> Null]
    /\ listeners = <<>>
    /\ pollingIntervalId = NoTimer
    /\ pollingIntervalMsActive = NullMs
    /\ snapshotCache = EmptyMap
    /\ timers = {}
    /\ seen = [c \in Callbacks |-> Undefined]
    /\ op = Op("init", "", 0, <<>>, <<>>, <<>>, "", NoArg, Undefined, TRUE)
    /\ others = [m \in Range(OtherMedia) |->
                    [storage |-> [k \in Keys |-> Null], listeners |-> <<>>]]
    /\ closures = {}
    /\ behaviour = [c \in Callbacks |-> "read"]
    /\ hooks = [c \in Callbacks |-> NoHook]
    /\ shadow = NoShadow

\* A hook mounts with a closure the registry does not hold, and unmounts
\* with the closure of its subscription.
Mount(key, cb, crossTabSync, pollingIntervalMs) ==
    /\ ~RegisteredAnywhere(listeners, cb) /\ ~RegisteredElsewhere(others, cb)
    /\ Subscribe(key, cb, crossTabSync, pollingIntervalMs)
Unmount(key, cb) ==
    Registered(listeners, key, cb) /\ Unsubscribe(key, cb)

\* Spec: the synchronization of observers with the medium.  Hooks mount and
\* unmount, the three write paths run, the medium changes from outside,
\* storage events arrive and the timer fires.
\* The options a hook mounts with: <<crossTabSync, pollingIntervalMs>>.
HookOptions == {<<"undefined", Req("num", 200)>>, <<"false", Req("null", 0)>>}
\* Strings written to the medium from outside.
ExternalStrings == {"a"}
\* Calls of the hook's setter: <<defaultValue, options.codec, argument>>.
SetValueCalls ==
    {<<JStr(""), "", Val(JStr("a"))>>,
     <<JStr(""), "", Val(JNull)>>}
\* Calls of setStoragePersistedState: <<options.codec, argument>>.
SetStateCalls ==
    {<<"", Val(JStr("a"))>>,
     <<"StringCodec", Val(JUndefined)>>}

Next ==
    \/ \E key \in Keys, cb \in Callbacks, o \in HookOptions : Mount(key, cb, o[1], o[2])
    \/ \E key \in Keys, cb \in Callbacks : Unmount(key, cb)
    \/ \E key \in Keys, call \in SetValueCalls : SetValue(key, call[1], call[2], call[3])
    \/ \E key \in Keys : RemoveItem(key)
    \/ \E key \in Keys, call \in SetStateCalls :
          SetStoragePersistedState(key, call[1], call[2])
    \/ \E key \in Keys, raw \in ExternalStrings \cup {Null} : ExternalWrite(key, raw)
    \/ \E key \in Keys : StorageEvent(key)
    \/ \E t \in timers : Tick(t)

Spec == Init /\ [][Next]_vars

\* SpecPoll: polling with two cadences.  Hooks mount with a fast or a slow
\* polling interval, the medium changes by a local write or from outside,
\* and the timer fires.
PollIntervals == {Req("num", 200), Req("num", 1000)}

NextPoll ==
    \/ \E key \in Keys, cb \in Callbacks, p \in PollIntervals : Mount(key, cb, "undefined", p)
    \/ \E key \in Keys, cb \in Callbacks : Unmount(key, cb)
    \/ \E key \in Keys : SetStoragePersistedState(key, "", Val(JStr("a")))
    \/ \E key \in Keys, raw \in ExternalStrings \cup {Null} : ExternalWrite(key, raw)
    \/ \E t \in timers : Tick(t)

SpecPoll == Init /\ [][NextPoll]_vars

\* SpecSched: the shared timer.  Hooks mount and unmount with every kind of
\* polling request, time passes and the timer fires.
PollingRequests ==
    {Req("undefined", 0), Req("null", 0), Req("NaN", 0), Req("num", 0),
     Req("num", 200), Req("num", 1000)}
\* The steps time is observed in.
TimeSteps == {100, 500}

NextSched ==
    \/ \E key \in Keys, cb \in Callbacks, p \in PollingRequests : Mount(key, cb, "undefined", p)
    \/ \E key \in Keys, cb \in Callbacks : Unmount(key, cb)
    \/ \E d \in TimeSteps : Wait(d)
    \/ \E t \in timers : Tick(t)

SpecSched == Init /\ [][NextSched]_vars

\* SpecOptions: observers whose two options disagree.  Hooks mount with
\* cross-tab sync but no polling, or with polling but no cross-tab sync; the
\* medium changes by a local write or from outside, storage events arrive
\* and the timer fires.
MixedOptions == {<<"undefined", Req("null", 0)>>, <<"false", Req("num", 200)>>}

NextOptions ==
    \/ \E key \in Keys, cb \in Callbacks, o \in MixedOptions : Mount(key, cb, o[1], o[2])
    \/ \E key \in Keys, cb \in Callbacks : Unmount(key, cb)
    \/ \E key \in Keys : SetStoragePersistedState(key, "", Val(JStr("a")))
    \/ \E key \in Keys, raw \in ExternalStrings \cup {Null} : ExternalWrite(key, raw)
    \/ \E key \in Keys : StorageEvent(key)
    \/ \E t \in timers : Tick(t)

SpecOptions == Init /\ [][NextOptions]_vars

\* SpecMedia: three media.  Hooks mount on window.localStorage, on
\* window.sessionStorage or on the volatile medium, none of them polling;
\* hooks of the other media write; window.localStorage is changed by another
\* context, and storage events of the two durable media arrive.
CrossTabRequests == {"undefined", "false"}
EventAreas == {"localStorage", "sessionStorage"}
\* The key text the three media share.
MediaKeys == {"k1"}

NextMedia ==
    \/ \E key \in MediaKeys, cb \in Callbacks, c \in CrossTabRequests :
          Mount(key, cb, c, Req("null", 0))
    \/ \E key \in MediaKeys, cb \in Callbacks : Unmount(key, cb)
    \/ \E m \in Range(OtherMedia), key \in MediaKeys, cb \in Callbacks, c \in CrossTabRequests :
          MountIn(m, key, cb, c)
    \/ \E m \in Range(OtherMedia), key \in MediaKeys, cb \in Callbacks : UnmountIn(m, key, cb)
    \/ \E m \in Range(OtherMedia), key \in MediaKeys :
          SetValueIn(m, key, JStr(""), "", Val(JStr("b")))
    \/ \E key \in MediaKeys, raw \in ExternalStrings \cup {Null} : ExternalWrite(key, raw)
    \/ \E area \in EventAreas, key \in MediaKeys : StorageEventIn(area, key)

SpecMedia == Init /\ [][NextMedia]_vars

\* SpecClosure: clients that keep their closures.  Clients subscribe
\* callbacks, also ones subscribed before, and call the closures they hold
\* any number of times; the medium changes from outside and the timer fires.
ClientOptions == {Req("num", 200), Req("null", 0)}
\* The key the clients subscribe to.
ClientKeys == {"k1"}

NextClosure ==
    \/ \E key \in ClientKeys, cb \in Callbacks, p \in ClientOptions :
          SubscribeClient(key, cb, "undefined", p)
    \/ \E c \in closures : CallClosure(c)
    \/ \E key \in ClientKeys, raw \in ExternalStrings \cup {Null} : ExternalWrite(key, raw)
    \/ \E t \in timers : Tick(t)

SpecClosure == Init /\ [][NextClosure]_vars

\* SpecReentrant: callbacks that change the registry while they are
\* notified.  Clients subscribe callbacks that read, unsubscribe themselves
\* or another callback, or subscribe another one; none polls.  Local writes
\* and storage events start the notification passes.
ReentrantBehaviours == {"read", "unsubscribeSelf", "unsubscribeOther", "subscribeOther"}

NextReentrant ==
    \/ \E key \in Keys, cb \in Callbacks, b \in ReentrantBehaviours :
          MountBehaving(key, cb, b, "undefined", Req("null", 0))
    \/ \E key \in Keys, cb \in Callbacks : Unmount(key, cb)
    \/ \E key \in Keys, v \in {JStr("a"), JNull} : WritePass(key, Val(v))
    \/ \E key \in Keys : EventPass(key)

SpecReentrant == Init /\ [][NextReentrant]_vars

\* SpecThrow: callbacks that raise.  Clients subscribe callbacks that read
\* or raise, polling or not; local writes, storage events and ticks start
\* the notification passes, and the medium changes from outside.
ThrowProfiles ==
    {<<"read", Req("num", 200)>>, <<"throw", Req("num", 200)>>, <<"read", Req("null", 0)>>}

NextThrow ==
    \/ \E key \in Keys, cb \in Callbacks, o \in ThrowProfiles :
          MountBehaving(key, cb, o[1], "undefined", o[2])
    \/ \E key \in Keys, cb \in Callbacks : Unmount(key, cb)
    \/ \E key \in Keys : WritePass(key, Val(JStr("a")))
    \/ \E key \in Keys, raw \in ExternalStrings \cup {Null} : ExternalWrite(key, raw)
    \/ \E key \in Keys : EventPass(key)
    \/ \E t \in timers : TickPass(t)

SpecThrow == Init /\ [][NextThrow]_vars

\* SpecWrite: the write and read paths with every built-in codec, on one key.
\* Hooks mount without polling, the setters are called with values of every
\* type, and the medium is changed from outside.
WriteKeys == {"k1"}
\* The values written, each with the default value of a hook of its type.
WrittenValues ==
    {<<JStr("a"), JStr("")>>, <<JStr(""), JStr("a")>>,
     <<JNum(0), JNum(1)>>, <<JNum(-42), JNum(0)>>, <<JNaN, JNum(0)>>,
     <<JInfinity, JNum(0)>>, <<JNegInfinity, JNum(0)>>,
     <<JBool(TRUE), JBool(FALSE)>>, <<JBool(FALSE), JBool(TRUE)>>,
     <<JObj(1), JObj(0)>>}
\* Explicit codecs, each with the values it is given.
ExplicitCalls ==
    {<<"JsonCodec", Val(JNum(1))>>, <<"JsonCodec", Val(JStr("a"))>>,
     <<"JsonCodec", Val(JNull)>>, <<"StringCodec", Val(JUndefined)>>,
     <<"NumberCodec", Val(JNull)>>, <<"NumberCodec", Fn("inc")>>, <<"", Fn("inc")>>}
ExternalTexts == {"INVALID_JSON{", "1"}

\* The updater's result is a number of the model.
IncInRange(s, key, arg) ==
    arg.kind = "fn" => \A n \in Ints : s[key] = IntToString(n) => (n + 1) \in Ints

NextWrite ==
    \/ \E key \in WriteKeys, cb \in Callbacks : Mount(key, cb, "undefined", Req("null", 0))
    \/ \E key \in WriteKeys, cb \in Callbacks : Unmount(key, cb)
    \/ \E key \in WriteKeys, w \in WrittenValues : SetValue(key, w[2], "", Val(w[1]))
    \/ \E key \in WriteKeys, c \in ExplicitCalls :
          IncInRange(storage, key, c[2]) /\ SetValue(key, JNull, c[1], c[2])
    \/ \E key \in WriteKeys : RemoveItem(key)
    \/ \E key \in WriteKeys, w \in WrittenValues :
          SetStoragePersistedState(key, "", Val(w[1]))
    \/ \E key \in WriteKeys, c \in ExplicitCalls :
          IncInRange(storage, key, c[2]) /\ SetStoragePersistedState(key, c[1], c[2])
    \/ \E key \in WriteKeys, raw \in ExternalTexts \cup {Null} : ExternalWrite(key, raw)

SpecWrite == Init /\ [][NextWrite]_vars

\* SpecUpdate: updater writes by several callers.  Hooks mount on one key;
\* the setters of hooks with default 0 and with default null and JsonCodec,
\* and setStoragePersistedState with NumberCodec and without a codec, are
\* called with the updater; the key is reset by removeItem and from outside.
\* Calls of the hook's setter with an updater: <<defaultValue, options.codec>>.
UpdaterHooks == {<<JNum(0), "">>, <<JNull, "JsonCodec">>}
\* options.codec of setStoragePersistedState called with an updater.
UpdaterCodecs == {"NumberCodec", ""}
ResetTexts == {"0"}

NextUpdate ==
    \/ \E key \in WriteKeys, cb \in Callbacks : Mount(key, cb, "undefined", Req("null", 0))
    \/ \E key \in WriteKeys, cb \in Callbacks : Unmount(key, cb)
    \/ \E key \in WriteKeys, h \in UpdaterHooks :
          IncInRange(storage, key, Fn("inc")) /\ SetValue(key, h[1], h[2], Fn("inc"))
    \/ \E key \in WriteKeys, c \in UpdaterCodecs :
          IncInRange(storage, key, Fn("inc")) /\ SetStoragePersistedState(key, c, Fn("inc"))
    \/ \E key \in WriteKeys : RemoveItem(key)
    \/ \E key \in WriteKeys, raw \in ResetTexts \cup {Null} : ExternalWrite(key, raw)

SpecUpdate == Init /\ [][NextUpdate]_vars

\* SpecView: what the hooks show.  Hooks with different defaults and codecs
\* mount on one key; their setters and removeItem are called, the medium
\* changes from outside, storage events arrive and the timer fires.
\* The hooks: <<defaultValue, options.codec>>.
ViewHooks == {<<JStr(""), "">>, <<JStr("b"), "">>, <<JNull, "JsonCodec">>}
\* The values the setter of a hook with the codec is called with.
ViewValues(codec) ==
    IF codec = "StringCodec" THEN {JStr("a")} ELSE {JNum(1), JNaN}
ViewTexts == {"a", "1"}

NextView ==
    \/ \E key \in WriteKeys, cb \in Callbacks, h \in ViewHooks :
          MountHook(key, cb, h[1], h[2], Req("num", 200))
    \/ \E key \in WriteKeys, cb \in Callbacks : UnmountHook(key, cb)
    \/ \E key \in WriteKeys, cb \in Callbacks :
          \E v \in ViewValues(hooks[cb].codec) : HookSetValue(key, cb, Val(v))
    \/ \E key \in WriteKeys, cb \in Callbacks : HookRemoveItem(key, cb)
    \/ \E key \in WriteKeys, raw \in ViewTexts \cup {Null} : ExternalWrite(key, raw)
    \/ \E key \in WriteKeys : EventView(key)
    \/ \E t \in timers : TickView(t)

SpecView == Init /\ [][NextView]_vars

\* SpecRead: reads with a default.  The medium is written from outside with
\* texts that do and do not decode, and callers read with each kind of
\* default and codec.
\* Calls of readStoragePersistedState: <<defaultValue, options.codec>>.
ReadCalls ==
    {<<JStr("b"), "">>, <<JNum(0), "">>, <<JBool(TRUE), "">>, <<JObj(0), "">>,
     <<JNull, "JsonCodec">>, <<JUndefined, "JsonCodec">>, <<JUndefined, "StringCodec">>,
     <<JUndefined, "NumberCodec">>, <<JUndefined, "BooleanCodec">>}
ReadTexts == {"INVALID_JSON{", "a", "1", "true"}

NextRead ==
    \/ \E key \in Keys, raw \in ReadTexts \cup {Null} : ExternalWrite(key, raw)
    \/ \E key \in Keys, c \in ReadCalls : ReadState(key, c[1], c[2])

SpecRead == Init /\ [][NextRead]_vars

\* SpecQuota: hooks on an engine whose adapter is the fallback-wrapping one,
\* with a durable medium that at times rejects writes and deletes.
QuotaDefaults == {JStr("")}
QuotaValues == {JStr("a"), JStr("b")}

NextQuota ==
    \/ \E full \in BOOLEAN, failing \in BOOLEAN : SetQuota(full, failing)
    \/ \E key \in WriteKeys, cb \in Callbacks, d \in QuotaDefaults :
          MountFallback(key, cb, d, "")
    \/ \E key \in WriteKeys, cb \in Callbacks : UnmountHook(key, cb)
    \/ \E key \in WriteKeys, cb \in Callbacks, v \in QuotaValues :
          SetValueFallback(key, cb, Val(v))
    \/ \E key \in WriteKeys, cb \in Callbacks : RemoveItemFallback(key, cb)

SpecQuota == Init /\ [][NextQuota]_vars

\* SpecTypes: writes and removes with each storage type, with observers on
\* the engines of the three media.
StorageTypes == {"undefined", "localStorage", "sessionStorage", "memory"}
TypeKeys == {"k1"}
TypeValues == {JStr("a"), JStr("b")}

NextTypes ==
    \/ \E key \in TypeKeys, cb \in Callbacks : Mount(key, cb, "undefined", Req("null", 0))
    \/ \E key \in TypeKeys, cb \in Callbacks : Unmount(key, cb)
    \/ \E m \in Range(OtherMedia), key \in TypeKeys, cb \in Callbacks :
          MountIn(m, key, cb, "undefined")
    \/ \E m \in Range(OtherMedia), key \in TypeKeys, cb \in Callbacks : UnmountIn(m, key, cb)
    \/ \E t \in StorageTypes, key \in TypeKeys, v \in TypeValues :
          SetStateOn(t, key, "", Val(v))
    \/ \E t \in StorageTypes, key \in TypeKeys : RemoveItemOn(t, key)

SpecTypes == Init /\ [][NextTypes]_vars

\* SpecCodec: the built-in codecs, called with the values of their type and
\* with texts that do and do not parse.
Numbers == {JNum(n) : n \in Ints} \cup {JNaN, JInfinity, JNegInfinity}
CodecValues(codec) ==
    CASE codec = "NumberCodec" -> Numbers \cup {JNull}
      [] codec = "BooleanCodec" -> {JBool(TRUE), JBool(FALSE)}
      [] codec = "StringCodec" -> {JStr(x) : x \in Texts} \cup {JNull, JUndefined}
      [] codec = "JsonCodec" ->
            Numbers \cup {JStr(x) : x \in Texts} \cup {JObj(n) : n \in Ints}
                \cup {JBool(TRUE), JBool(FALSE), JNull, JUndefined}
\* Texts no JSON value is written as.
MalformedTexts == {"INVALID_JSON{", "a", "", "NaN", "Infinity", "-Infinity"}
CodecTexts ==
    MalformedTexts \cup {"0", "-42", "1", "2", "true", "false", "null",
                          "\"a\"", "\"\"", "{\"n\":1}", "{\"n\":0}"}

NextCodec ==
    \/ \E codec \in Codecs : \E v \in CodecValues(codec) : EncodeValue(codec, v)
    \/ \E codec \in Codecs, raw \in CodecTexts \cup {Null} : DecodeText(codec, raw)

SpecCodec == Init /\ [][NextCodec]_vars

\* SpecInterval: registrations asking for each kind of polling interval.
IntervalRequests ==
    {Req("undefined", 0), Req("null", 0), Req("NaN", 0), Req("num", 0), Req("num", -100),
     Req("num", 200), Req("num", 1000), Req("num", 5000)}

NextInterval ==
    \/ \E key \in Keys, cb \in Callbacks, p \in IntervalRequests : MountRequesting(key, cb, p)
    \/ \E key \in Keys, cb \in Callbacks : Unmount(key, cb)

SpecInterval == Init /\ [][NextInterval]_vars

\* SpecTick: the polling protocol.  Hooks that poll and hooks that do not
\* mount and unmount, the medium changes from outside, and the timer fires.
TickRequests == {Req("num", 200), Req("null", 0)}

NextTick ==
    \/ \E key \in Keys, cb \in Callbacks, p \in TickRequests : Mount(key, cb, "undefined", p)
    \/ \E key \in Keys, cb \in Callbacks : Unmount(key, cb)
    \/ \E key \in Keys, raw \in ExternalStrings \cup {Null} : ExternalWrite(key, raw)
    \/ \E t \in timers : PollTick(t)

SpecTick == Init /\ [][NextTick]_vars

\* SpecRegistry: any sequence of subscribe calls and calls of the closures
\* they returned, by clients that subscribe a callback to several keys,
\* subscribe it again, and call a closure more than once.
RegistryRequests == {Req("num", 200), Req("null", 0)}

NextRegistry ==
    \/ \E key \in Keys, cb \in Callbacks, p \in RegistryRequests :
          SubscribeClient(key, cb, "undefined", p)
    \/ \E c \in closures : CallClosure(c)

SpecRegistry == Init /\ [][NextRegistry]_vars

\* SpecGone: observers that have gone.  Clients subscribe callbacks to a
\* key, with polling or without, and call the closures they hold, also more
\* than once; local writes, storage events and ticks of the timer notify,
\* and the medium changes from outside.
GoneRequests == {Req("num", 200), Req("null", 0)}

NextGone ==
    \/ \E key \in ClientKeys, cb \in Callbacks, p \in GoneRequests :
          SubscribeClient(key, cb, "undefined", p)
    \/ \E c \in closures : CallClosure(c)
    \/ \E key \in WriteKeys : SetStoragePersistedState(key, "", Val(JStr("a")))
    \/ \E key \in WriteKeys : ExternalWrite(key, Null)
    \/ \E key \in WriteKeys : StorageEvent(key)
    \/ \E t \in timers : Tick(t)

SpecGone == Init /\ [][NextGone]_vars

\* SpecFail: write paths that fail.  Hooks with StringCodec and with
\* JsonCodec mount on one key; their setters and setStoragePersistedState are
\* called with values and with null while the medium holds a text JsonCodec
\* cannot read, or is full, or neither.
\* The hooks: <<defaultValue, options.codec>>.
FailHooks == {<<JStr(""), "">>, <<JNull, "JsonCodec">>}
\* options.codec of setStoragePersistedState.
FailCodecs == {"", "JsonCodec"}
FailValues == {JStr("a"), JNull}
FailTexts == {"INVALID_JSON{"}

NextFail ==
    \/ \E full \in BOOLEAN : SetQuota(full, FALSE)
    \/ \E key \in WriteKeys, cb \in Callbacks, h \in FailHooks :
          MountHook(key, cb, h[1], h[2], Req("null", 0))
    \/ \E key \in WriteKeys, cb \in Callbacks : UnmountHook(key, cb)
    \/ \E key \in WriteKeys, cb \in Callbacks, v \in FailValues :
          HookSetValueQuota(key, cb, Val(v))
    \/ \E key \in WriteKeys, c \in FailCodecs, v \in FailValues :
          SetStateQuota(key, c, Val(v))
    \/ \E key \in WriteKeys, raw \in FailTexts \cup {Null} : ExternalWrite(key, raw)

SpecFail == Init /\ [][NextFail]_vars

\* SpecTwice: a callback is subscribed to a key it may already be subscribed
\* to, with the same or other options, and notification passes run.
TwiceOptions == {<<"undefined", Req("num", 200)>>, <<"false", Req("null", 0)>>}

NextTwice ==
    \/ \E key \in Keys, cb \in Callbacks, o \in TwiceOptions :
          SubscribeRequesting(key, cb, o[1], o[2])
    \/ \E key \in Keys, cb \in Callbacks : Unmount(key, cb)
    \/ \E key \in WriteKeys : SetStoragePersistedState(key, "", Val(JStr("a")))
    \/ \E key \in WriteKeys : StorageEvent(key)

SpecTwice == Init /\ [][NextTwice]_vars

\* ------------------------------------------------------------ properties
WriteOps == {"setValue", "removeItem", "setStoragePersistedState"}
RegistryOps == {"subscribe", "unsubscribe"}

\* How many times the calls invoked cb.
Invocations(calls, cb) == Cardinality({i \in DOMAIN calls : calls[i].cb = cb})

\* The registration of cb under key.
OptionsOf(ls, key, cb) == Get(ls, key)[CbIdx(Get(ls, key), cb)]

\* The enabled polling intervals over all registrations, and their minimum
\* (NullMs when none is enabled), computed from the set rather than by the
\* engine's loop.
EnabledIntervals(ls) ==
    {AllOptions(ls)[i].pollingIntervalMs : i \in DOMAIN AllOptions(ls)} \ {NullMs}
MinEnabled(ls) ==
    IF EnabledIntervals(ls) = {} THEN NullMs
    ELSE CHOOSE m \in EnabledIntervals(ls) : \A x \in EnabledIntervals(ls) : m <= x

\* C1 (local echo): after a write to key K through any of the write paths,
\* whatever string K held before, every callback registered for K when the
\* write was called has been invoked exactly once by that write.
C1_LocalEcho ==
    op.name \in WriteOps =>
        \A cb \in Callbacks :
            Registered(listeners, op.key, cb) => Invocations(op.calls, cb) = 1

\* C2 (notify reaches all): the notify(K) of a write path invokes every
\* callback registered for K exactly once, whatever its cross-tab and polling
\* options, and no callback that is not registered for K.
C2_NotifyReachesAll ==
    (op.name \in WriteOps /\ op.ok) =>
        \A cb \in Callbacks :
            Invocations(op.calls, cb) = IF Registered(listeners, op.key, cb) THEN 1 ELSE 0

\* A write notified a callback registered without cross-tab sync and without
\* polling, while a callback registered for another key was left alone.
C2_Witness ==
    /\ op.name \in WriteOps /\ op.ok
    /\ \E cb \in Callbacks :
          /\ Registered(listeners, op.key, cb)
          /\ ~OptionsOf(listeners, op.key, cb).crossTabSync
          /\ OptionsOf(listeners, op.key, cb).pollingIntervalMs = NullMs
          /\ Invocations(op.calls, cb) = 1
    /\ \E cb \in Callbacks, k \in Keys \ {op.key} :
          Registered(listeners, k, cb) /\ Invocations(op.calls, cb) = 0

\* C3 (external change caught by the next tick): once the timer has ticked,
\* every polling-enabled observer of every key has read the string the medium
\* holds for its key: a string that differs from the one the observer read
\* last (when notified, or when it subscribed) got it invoked on that tick.
C3_CaughtByNextTick ==
    op.name = "tick" =>
        \A k \in Keys, cb \in Callbacks :
            (Registered(listeners, k, cb)
                /\ OptionsOf(listeners, k, cb).pollingIntervalMs # NullMs)
            => seen[cb] = storage[k]

\* C4 (a local write marks the snapshot): right after a write path has
\* written a key that a polling-enabled observer is registered for, the
\* engine's snapshot cache holds for that key the string the medium holds.
C4_WriteMarksSnapshot ==
    (/\ op.name \in WriteOps /\ op.ok
     /\ \E cb \in Callbacks :
           /\ Registered(listeners, op.key, cb)
           /\ OptionsOf(listeners, op.key, cb).pollingIntervalMs # NullMs)
    => MapGet(snapshotCache, op.key) = storage[op.key]

\* C5 (adapter before notify): every callback a write path invoked read
\* from the medium the string the write left there: the adapter call came
\* before notify.
C5_AdapterBeforeNotify ==
    op.name \in WriteOps =>
        \A i \in DOMAIN op.calls : op.calls[i].read = storage[op.key]

\* A write changed the string of a key and invoked a callback.
C5_Witness ==
    /\ op.name \in WriteOps
    /\ op.calls # <<>>
    /\ op.prev # storage[op.key]

\* The defaults read-with-default is called with (the codec is explicit).
ReadDefaults == {JNull, JUndefined}

\* C6 (read after write): after a setter was called on key K with a value V
\* that is neither null nor undefined, whatever string K held before, the
\* medium holds encode(V) under K, and a read-with-default of K with the
\* same codec returns V.
C6_ReadAfterWrite ==
    (/\ op.name \in {"setValue", "setStoragePersistedState"}
     /\ op.arg.kind = "value"
     /\ op.arg.v \notin {JNull, JUndefined})
    => /\ storage[op.key] = Encode(op.codec, op.arg.v)
       /\ \A d \in ReadDefaults :
             readStoragePersistedState(storage, op.key, d, op.codec) = op.arg.v

\* C7 (scheduler invariant): at most one timer is active; none is active
\* exactly when no registration has polling enabled; the active timer is the
\* one the engine holds the handle of, and its interval is the minimum of the
\* enabled polling intervals over all registrations of all keys.
C7_SchedulerInvariant ==
    /\ Cardinality(timers) <= 1
    /\ (timers = {}) <=> (EnabledIntervals(listeners) = {})
    /\ (timers = {}) <=> (pollingIntervalId = NoTimer)
    /\ \A t \in timers :
          /\ t.id = pollingIntervalId
          /\ t.ms = MinEnabled(listeners)
          /\ t.ms = pollingIntervalMsActive

\* The timer runs at the smaller of two enabled intervals and has made
\* progress.
C7_Witness ==
    /\ EnabledIntervals(listeners) = {200, 1000}
    /\ \E t \in timers : t.ms = 200 /\ t.elapsed > 0

\* C8 (timer replacement): a subscribe or unsubscribe that changes the
\* minimum enabled interval from m to another m' stops the old timer exactly
\* once and starts exactly one timer, at m'; an unsubscribe that leaves no
\* polling-enabled registration stops the timer exactly once and starts none.
C8_TimerReplacement ==
    [][op'.name \in RegistryOps =>
        LET m == MinEnabled(listeners)
            n == MinEnabled(listeners')
        IN /\ (m # NullMs /\ n # NullMs /\ m # n) =>
                /\ op'.stopped = <<pollingIntervalId>>
                /\ op'.started = <<n>>
                /\ timers' = {[id |-> pollingIntervalId', ms |-> n, elapsed |-> 0]}
                /\ pollingIntervalId' # pollingIntervalId
           /\ (m # NullMs /\ n = NullMs) =>
                /\ op'.stopped = <<pollingIntervalId>>
                /\ op'.started = <<>>
                /\ timers' = {}]_vars

\* The fastest observer unsubscribed: the timer was stopped once and one was
\* started at the slower interval.
C8_Witness ==
    /\ op.name = "unsubscribe"
    /\ Len(op.stopped) = 1
    /\ op.started = <<1000>>
    /\ \E t \in timers : t.ms = 1000

\* C9 (unchanged minimum): a subscribe or unsubscribe that leaves the
\* minimum enabled interval as it was stops no timer and starts none: the
\* handle, the timer and its progress towards the next tick are unchanged.
C9_UnchangedMinimum ==
    [][(/\ op'.name \in RegistryOps
        /\ MinEnabled(listeners) # NullMs
        /\ MinEnabled(listeners') = MinEnabled(listeners))
       => /\ op'.started = <<>>
          /\ op'.stopped = <<>>
          /\ timers' = timers
          /\ pollingIntervalId' = pollingIntervalId]_vars

\* A slower observer subscribed while the timer was part of the way to its
\* next tick: nothing was stopped or started and the progress is kept.
C9_Witness ==
    /\ op.name = "subscribe"
    /\ op.started = <<>> /\ op.stopped = <<>>
    /\ EnabledIntervals(listeners) = {200, 1000}
    /\ \E t \in timers : t.ms = 200 /\ t.elapsed > 0

\* C10 (polling floor): when two observers of one key poll at intervals
\* a < b, the timer runs no slower than a, and once it has ticked both
\* observers have read the string the medium holds: a change from outside
\* was detected on that tick and both were notified together.
C10_PollingFloor ==
    op.name = "tick" =>
        \A k \in Keys, x \in Callbacks, y \in Callbacks :
            (/\ Registered(listeners, k, x) /\ Registered(listeners, k, y)
             /\ OptionsOf(listeners, k, x).pollingIntervalMs # NullMs
             /\ OptionsOf(listeners, k, x).pollingIntervalMs
                    < OptionsOf(listeners, k, y).pollingIntervalMs)
            => /\ \A t \in timers : t.ms <= OptionsOf(listeners, k, x).pollingIntervalMs
               /\ seen[x] = storage[k]
               /\ seen[y] = storage[k]

\* C11 (disabled-polling isolation): a polling tick invokes no callback
\* whose registration has polling disabled, also when another callback of
\* the same key polls and the tick detects a change of that key.
C11_DisabledPollingIsolation ==
    op.name = "tick" =>
        \A k \in Keys, cb \in Callbacks :
            (Registered(listeners, k, cb)
                /\ OptionsOf(listeners, k, cb).pollingIntervalMs = NullMs)
            => Invocations(op.calls, cb) = 0

\* A tick detected a change of a key and invoked its polling observer, and
\* left alone an observer of the same key that has polling disabled.
C11_Witness ==
    /\ op.name = "tick"
    /\ \E k \in Keys, x \in Callbacks, y \in Callbacks :
          /\ Registered(listeners, k, x) /\ Registered(listeners, k, y)
          /\ OptionsOf(listeners, k, x).pollingIntervalMs # NullMs
          /\ OptionsOf(listeners, k, y).pollingIntervalMs = NullMs
          /\ Invocations(op.calls, x) = 1
          /\ Invocations(op.calls, y) = 0
          /\ seen[x] # seen[y]

\* C12 (native change event): a storage event for key K invokes once each
\* callback registered for K with cross-tab sync, and no other callback.
C12_NativeEvent ==
    op.name = "storageEvent" =>
        \A cb \in Callbacks :
            Invocations(op.calls, cb) =
                IF Registered(listeners, op.key, cb)
                   /\ OptionsOf(listeners, op.key, cb).crossTabSync
                THEN 1 ELSE 0

\* A storage event invoked the observer with cross-tab sync and left alone
\* an observer of the same key without it.
C12_Witness ==
    /\ op.name = "storageEvent"
    /\ \E x \in Callbacks, y \in Callbacks :
          /\ Registered(listeners, op.key, x) /\ Registered(listeners, op.key, y)
          /\ OptionsOf(listeners, op.key, x).crossTabSync
          /\ ~OptionsOf(listeners, op.key, y).crossTabSync
          /\ Invocations(op.calls, x) = 1
          /\ Invocations(op.calls, y) = 0

\* C15 (cross-tab sync disabled): an observer registered without cross-tab
\* sync does not respond to a change made by another context: neither a
\* storage event nor a tick invokes it to read a string it had not read.
C15_NoResponseWithoutCrossTab ==
    [][op'.name \in {"tick", "storageEvent"} =>
        \A k \in Keys, cb \in Callbacks :
            (Registered(listeners, k, cb) /\ ~OptionsOf(listeners, k, cb).crossTabSync)
            => (Invocations(op'.calls, cb) = 0 \/ seen'[cb] = seen[cb])]_vars

\* The callbacks registered with the engine of medium m.
RegisteredIn(m, key, cb) == Registered(others[m].listeners, key, cb)

\* C13 (medium isolation of native events): a storage event reported for a
\* key of window.localStorage invokes no observer registered with the engine
\* of window.sessionStorage, also not one registered for the same key text.
C13_MediumIsolation ==
    op.name = "storageEvent" =>
        \A k \in Keys, cb \in Callbacks :
            RegisteredIn("sessionStorage", k, cb) => Invocations(op.calls, cb) = 0

\* C14 (volatile medium): a storage event, of either durable medium, invokes
\* no observer registered with the engine of the volatile medium, whatever
\* cross-tab sync it requested, and the observer's view stays the string the
\* volatile medium holds.
C14_MemoryIgnoresEvents ==
    op.name \in {"storageEvent", "storageEventElsewhere"} =>
        \A k \in Keys, cb \in Callbacks :
            RegisteredIn("memory", k, cb) =>
                /\ Invocations(op.calls, cb) = 0
                /\ seen[cb] = others["memory"].storage[k]

\* A storage event for a key invoked an observer of window.localStorage
\* and left alone an observer of the same key text on the volatile medium,
\* which holds another string for it.
C14_Witness ==
    /\ op.name = "storageEvent"
    /\ \E x \in Callbacks, y \in Callbacks :
          /\ Registered(listeners, op.key, x) /\ Invocations(op.calls, x) = 1
          /\ RegisteredIn("memory", op.key, y) /\ Invocations(op.calls, y) = 0
          /\ seen[x] = "a" /\ seen[y] = "b"

\* C16 (idempotent unsubscribe): calling a closure that subscribe returned
\* a second or later time changes nothing of the engine (registry, snapshot
\* cache, timer), whatever was subscribed or unsubscribed since its first call.
C16_IdempotentUnsubscribe ==
    [][op'.name = "unsubscribeAgain" => UNCHANGED engineVars]_vars

\* C17 (unsubscribe during a notification pass): a pass over a key, started
\* by a local write or a storage event, invokes every callback that was
\* registered for the key when the pass started exactly once, and invokes
\* no callback that was added during the pass, whatever the callbacks
\* unsubscribe or subscribe while they run.
C17_StableSnapshot ==
    [][op'.name \in {"writePass", "eventPass"} =>
          \A cb \in Callbacks :
              Invocations(op'.calls, cb) =
                  IF Registered(listeners, op'.key, cb) THEN 1 ELSE 0]_vars

\* C18 (failure isolation): a callback that raises during a notification
\* pass does not keep the other callbacks from being invoked: a local write
\* invokes every callback of the key, a storage event every callback of the
\* key with cross-tab synchronisation, and a polling tick every polling
\* callback of every key whose string differs from the cached one.
C18_FailureIsolation ==
    [][/\ op'.name = "writePass" =>
              \A cb \in Callbacks :
                  Registered(listeners, op'.key, cb) => Invocations(op'.calls, cb) = 1
       /\ op'.name = "eventPass" =>
              \A cb \in Callbacks :
                  (/\ Registered(listeners, op'.key, cb)
                   /\ OptionsOf(listeners, op'.key, cb).crossTabSync)
                      => Invocations(op'.calls, cb) = 1
       /\ op'.name = "tickPass" =>
              \A k \in Keys, cb \in Callbacks :
                  (/\ Registered(listeners, k, cb)
                   /\ OptionsOf(listeners, k, cb).pollingIntervalMs # NullMs
                   /\ storage[k] # MapGet(snapshotCache, k))
                      => Invocations(op'.calls, cb) = 1]_vars

\* C19 (snapshot cache invariant): the snapshot cache holds an entry for a key
\* only while the key has at least one observer with polling enabled, so the
\* entry is gone once the key's last polling observer has unsubscribed, also
\* while other keys are still polled.
C19_SnapshotCacheInvariant ==
    \A k \in DOMAIN snapshotCache :
        \E cb \in Callbacks :
            /\ Registered(listeners, k, cb)
            /\ OptionsOf(listeners, k, cb).pollingIntervalMs # NullMs

\* The defaults a caller reads with after a deletion.
DeletionDefaults == {JNull, JStr("a"), JNum(0)}

\* C20 (deletion semantics): after a setter was called on key K with null or
\* undefined, whatever string K held before, the medium holds nothing under
\* K, a read-with-default of K returns the caller's default, and every hook
\* on K has read the absent key.
C20_DeletionSemantics ==
    (/\ op.name \in {"setValue", "setStoragePersistedState"}
     /\ op.arg.kind = "value"
     /\ op.arg.v \in {JNull, JUndefined})
    => /\ storage[op.key] = Null
       /\ \A d \in DeletionDefaults :
             readStoragePersistedState(storage, op.key, d, op.codec) = d
       /\ \A cb \in Callbacks : Registered(listeners, op.key, cb) => seen[cb] = Null

\* The value an updater of the operation o is applied to when the key is
\* missing: the hook's default (0 or null here, which the updater takes
\* alike), null for setStoragePersistedState.
UpdaterBase(o) == JNull

\* The value the key held before the operation o, as o's codec decodes it.
ValueBefore(o) == IF o.prev = Null THEN UpdaterBase(o) ELSE Decode(o.codec, o.prev)

UpdaterWrite(o) ==
    o.name \in {"setValue", "setStoragePersistedState"} /\ o.arg.kind = "fn" /\ o.ok

\* C21 (no lost updates): when two updater writes f then g are made one after
\* the other on the same key, by whatever hooks or callers, the medium then
\* holds the encoding of g(f(v)), where v is the value before the first write.
C21_NoLostUpdates ==
    [][(UpdaterWrite(op) /\ UpdaterWrite(op') /\ op'.key = op.key) =>
          storage'[op.key] =
              Encode(op'.codec,
                     ApplyUpdater(op'.arg.f, ApplyUpdater(op.arg.f, ValueBefore(op))))]_vars

\* Two hooks are mounted on the key, which held "1" after a first updater
\* write; a second updater write left "2" and both hooks read it.
C21_Witness ==
    /\ UpdaterWrite(op) /\ op.prev = "1" /\ storage[op.key] = "2"
    /\ \A cb \in Callbacks : Registered(listeners, op.key, cb) /\ seen[cb] = "2"

\* The key the hook of cb is mounted on.
KeyOf(cb) == CHOOSE k \in Keys : Registered(listeners, k, cb)

\* C22 (views track the store): once a mounted hook on key K was notified, by
\* a local write or remove, a storage event or a polling tick, and re-read
\* its snapshot, its value is the hook's own default when K is absent and
\* decode(stored string of K) with its codec when the string decodes.
C22_ViewsTrackStore ==
    op.name \in {"setValue", "removeItem", "storageEvent", "tick"} =>
        \A i \in DOMAIN op.calls :
            LET h == hooks[op.calls[i].cb]
                raw == storage[KeyOf(op.calls[i].cb)]
            IN IF raw = Null THEN h.value = h.defaultValue
               ELSE Decode(h.codec, raw) # Throw => h.value = Decode(h.codec, raw)

\* What the last read returned (the read leaves the medium as it is).
ReadResult == readStoragePersistedState(storage, op.key, op.arg.v, op.codec)

\* The read found no entry, or a text its codec raises on.
ReadFellBack ==
    storage[op.key] = Null \/ Decode(op.codec, storage[op.key]) = Throw

AllNotified(key, raw) ==
    \A cb \in Callbacks :
        Registered(listeners, key, cb) =>
            /\ \E i \in DOMAIN op.calls : op.calls[i].cb = cb
            /\ seen[cb] = raw

\* C24 (fallback write): while the durable medium rejects writes, a write
\* of V to K through the fallback-wrapping adapter runs through without
\* raising, a read of K from the adapter then returns V, the durable
\* medium's entry for K is what it was (none, when it accepted no write),
\* and every observer of K is notified and shows V.
C24_FallbackWrite ==
    (op.name = "setValue" /\ shadow.full) =>
        /\ op.ok
        /\ getItem(Visible(storage, shadow), op.key) = Encode(op.codec, op.arg.v)
        /\ storage[op.key] = op.prev.primary
        /\ AllNotified(op.key, Encode(op.codec, op.arg.v))
        /\ \A cb \in Callbacks :
              Registered(listeners, op.key, cb) => hooks[cb].value = op.arg.v

\* The durable medium rejects writes and holds no entry; "a" was written
\* through the adapter and two mounted hooks show it.
C24_Witness ==
    /\ op.name = "setValue" /\ shadow.full /\ op.arg.v = JStr("a")
    /\ storage[op.key] = Null /\ shadow.memory[op.key] = "a"
    /\ \E c1, c2 \in Callbacks :
          /\ c1 # c2
          /\ Registered(listeners, op.key, c1) /\ Registered(listeners, op.key, c2)
          /\ hooks[c1].value = JStr("a") /\ hooks[c2].value = JStr("a")

\* C25 (fallback recovery): a write to a memory-shadowed key K that the
\* durable medium accepts clears the override: the durable medium holds
\* the written value and reads of K through the adapter return it.
C25_FallbackRecovery ==
    (op.name = "setValue" /\ op.prev.override # Undefined /\ ~shadow.full) =>
        /\ op.ok
        /\ shadow.memory[op.key] = Undefined
        /\ storage[op.key] = Encode(op.codec, op.arg.v)
        /\ getItem(Visible(storage, shadow), op.key) = storage[op.key]

\* "a" was shadowed in memory, then "b" was written and accepted by the
\* durable medium; a mounted hook shows "b".
C25_Witness ==
    /\ op.name = "setValue" /\ op.prev.override = "a" /\ op.prev.primary = Null
    /\ ~shadow.full /\ shadow.memory[op.key] = Undefined /\ storage[op.key] = "b"
    /\ \E cb \in Callbacks :
          Registered(listeners, op.key, cb) /\ hooks[cb].value = JStr("b")

\* C26 as stated (fallback delete): a delete of K through the adapter
\* always removes the override of K, even if the primary's delete failed;
\* after the removal of a memory-shadowed key a read of K no longer returns
\* the shadowed value and every hook on K returns its default.
C26_FallbackDelete ==
    op.name = "removeItem" =>
        /\ shadow.memory[op.key] = Undefined
        /\ op.prev.override # Undefined =>
              /\ getItem(Visible(storage, shadow), op.key) # op.prev.override
              /\ \A cb \in Callbacks :
                    Registered(listeners, op.key, cb)
                        => hooks[cb].value = hooks[cb].defaultValue

\* C26 amended: a delete of K through the adapter always removes the
\* override of K, even if the primary's delete failed, so a read of K then
\* returns the durable medium's entry.  When the primary's delete went
\* through there is none and every hook on K returns its default; when it
\* failed the durable medium's entry is what it was before.
C26_FallbackDeleteClearsOverride ==
    op.name = "removeItem" =>
        /\ shadow.memory[op.key] = Undefined
        /\ getItem(Visible(storage, shadow), op.key) = storage[op.key]
        /\ ~shadow.failing =>
              /\ storage[op.key] = Null
              /\ \A cb \in Callbacks :
                    Registered(listeners, op.key, cb)
                        => hooks[cb].value = hooks[cb].defaultValue
        /\ shadow.failing => storage[op.key] = op.prev.primary

\* A memory-shadowed key was removed while the primary's delete failed:
\* the override is gone.
C26_Witness ==
    /\ op.name = "removeItem" /\ op.prev.override = "a" /\ shadow.failing
    /\ shadow.memory[op.key] = Undefined
    /\ \E cb \in Callbacks :
          Registered(listeners, op.key, cb) /\ hooks[cb].value = hooks[cb].defaultValue

\* The medium a storage type names (the default is the local one).
MediumNamed(storageType) ==
    IF storageType = "undefined" THEN "localStorage" ELSE storageType

\* The callback cb is registered on the engine of a medium other than m.
ObservesAnother(m, cb) ==
    \/ m # "localStorage" /\ RegisteredAnywhere(listeners, cb)
    \/ \E o \in Range(OtherMedia) : o # m /\ RegisteredAnywhere(others[o].listeners, cb)

\* C27 (storage-type isolation): a write or remove of K with storage type M
\* changes at most medium M's entry for K: the entries of every other
\* medium are left as they were, and no observer registered on another
\* medium's engine is called.
C27_StorageTypeIsolation ==
    [][op'.name \in {"setStateOn", "removeItemOn"} =>
        LET M == MediumNamed(op'.prev) IN
        /\ M # "localStorage" => storage' = storage
        /\ M = "localStorage" => \A k \in Keys \ {op'.key} : storage'[k] = storage[k]
        /\ \A o \in Range(OtherMedia) :
              /\ o # M => others'[o].storage = others[o].storage
              /\ o = M => \A k \in Keys \ {op'.key} :
                             others'[o].storage[k] = others[o].storage[k]
        /\ \A cb \in Callbacks :
              ObservesAnother(M, cb) =>
                  /\ \A i \in DOMAIN op'.calls : op'.calls[i].cb # cb
                  /\ seen'[cb] = seen[cb]]_vars

\* The local and the session medium both hold K; K was then removed with
\* storage type sessionStorage while a hook observes K on the local engine:
\* the local entry is still there and the hook was not called.
C27_Witness ==
    /\ op.name = "removeItemOn" /\ op.prev = "sessionStorage"
    /\ storage[op.key] = "a" /\ others["sessionStorage"].storage[op.key] = Null
    /\ others["memory"].storage[op.key] = "b"
    /\ \E c1, c2 \in Callbacks :
          /\ Registered(listeners, op.key, c1) /\ seen[c1] = "a"
          /\ Registered(others["sessionStorage"].listeners, op.key, c2) /\ seen[c2] = Null
          /\ op.calls # <<>>

\* C28 (numeric codec round-trip): decode(encode(x)) is x for every number
\* x (zero, negative, NaN and the two infinities included), and the three
\* non-finite values are written as "NaN", "Infinity" and "-Infinity".
C28_NumericRoundTrip ==
    (op.name = "encode" /\ op.codec = "NumberCodec" /\ op.arg.v \in Numbers) =>
        /\ NumberCodec_decode(op.prev) = op.arg.v
        /\ op.arg.v = JNaN => op.prev = "NaN"
        /\ op.arg.v = JInfinity => op.prev = "Infinity"
        /\ op.arg.v = JNegInfinity => op.prev = "-Infinity"

\* NaN was encoded with the numeric codec, to a text that decodes to NaN.
C28_Witness ==
    /\ op.name = "encode" /\ op.codec = "NumberCodec" /\ op.arg.v = JNaN
    /\ op.prev = "NaN" /\ NumberCodec_decode(op.prev) = JNaN

\* C29 (JSON codec): encode of an absent value yields no text, decode of
\* an absent entry yields null, and decode of malformed text raises.
C29_JsonCodecAbsentAndMalformed ==
    op.codec = "JsonCodec" =>
        /\ (op.name = "encode" /\ op.arg.v = JNull) => op.prev = Null
        /\ (op.name = "encode" /\ op.arg.v = JUndefined) => op.prev = Undefined
        /\ (op.name = "decode" /\ op.prev = Null) => (op.ok /\ op.arg.v = JNull)
        /\ (op.name = "decode" /\ op.prev \in MalformedTexts)
              => (~op.ok /\ op.arg.v = Throw)

\* The JSON codec was called to decode malformed text, and raised.
C29_Witness ==
    /\ op.name = "decode" /\ op.codec = "JsonCodec" /\ op.prev = "INVALID_JSON{"
    /\ ~op.ok /\ op.arg.v = Throw

\* C30 (polling interval normalization): a registration's interval is the
\* default (2000) when undefined was asked for, disabled when null, a
\* number <= 0 or NaN was asked for, and the number asked for when it is
\* positive; the engine-wide minimum is the least interval of the
\* registrations that are not disabled, and none when there is no such.
C30_IntervalNormalization ==
    /\ (op.name = "subscribe" /\ op.arg.kind = "request") =>
          LET p == op.arg.v
              eff == OptionsOf(listeners, op.key, op.cb).pollingIntervalMs
          IN /\ p.tag = "undefined" => eff = 2000
             /\ p.tag \in {"null", "NaN"} => eff = NullMs
             /\ (p.tag = "num" /\ p.n <= 0) => eff = NullMs
             /\ (p.tag = "num" /\ p.n > 0) => eff = p.n
    /\ getMinPollingIntervalMs(listeners) = MinEnabled(listeners)
    /\ pollingIntervalMsActive = getMinPollingIntervalMs(listeners)

\* A registration that asked for a negative interval is disabled, next to
\* one that polls every 200 ms: the engine polls every 200 ms.
C30_Witness ==
    /\ op.name = "subscribe" /\ op.arg.kind = "request"
    /\ op.arg.v = Req("num", -100) /\ OptionsOf(listeners, op.key, op.cb).pollingIntervalMs = NullMs
    /\ EnabledIntervals(listeners) = {200}
    /\ pollingIntervalMsActive = 200

\* The keys with at least one polling-enabled observer.
PolledKeys(ls) ==
    {k \in Keys : \E j \in DOMAIN Get(ls, k) : Get(ls, k)[j].pollingIntervalMs # NullMs}

\* How often the callback cb is called in the sequence of calls.
TimesCalled(calls, cb) == Cardinality({i \in DOMAIN calls : calls[i].cb = cb})

\* C31 (polling protocol): a tick reads exactly the keys with a
\* polling-enabled observer, once each.  For such a key whose stored value
\* differs from the snapshot entry it sets the entry to the stored value and
\* calls the key's polling-enabled callbacks, once each, and no other
\* callback of the key; when the value equals the entry it calls no
\* callback of the key and leaves the entry.  A key whose observers all
\* have polling disabled is not read, is given no entry, and none of its
\* callbacks is called.
C31_PollingProtocol ==
    [][op'.name = "poll" =>
        /\ Range(op'.prev) = PolledKeys(listeners)
        /\ Len(op'.prev) = Cardinality(PolledKeys(listeners))
        /\ \A k \in Keys :
              LET cbs == Get(listeners, k)
                  differs == k \in PolledKeys(listeners)
                                 /\ storage[k] # MapGet(snapshotCache, k)
              IN /\ differs => MapGet(snapshotCache', k) = storage[k]
                 /\ ~differs => MapGet(snapshotCache', k) = MapGet(snapshotCache, k)
                 /\ \A j \in DOMAIN cbs :
                       TimesCalled(op'.calls, cbs[j].cb) =
                           IF differs /\ cbs[j].pollingIntervalMs # NullMs THEN 1 ELSE 0]_vars

\* A tick read k1 only, found "a" there and called its polling observer;
\* k2 has an observer that does not poll, and no snapshot entry.
C31_Witness ==
    /\ op.name = "poll" /\ op.prev = <<"k1">> /\ Len(op.calls) = 1
    /\ storage["k1"] = "a" /\ MapGet(snapshotCache, "k1") = "a"
    /\ Has(listeners, "k2") /\ storage["k2"] = "a"
    /\ MapGet(snapshotCache, "k2") = Undefined

\* The registry has an entry for a key exactly when a callback is
\* registered under it.
NoEmptyEntry ==
    \A k \in Keys : Has(listeners, k) <=> \E cb \in Callbacks : Registered(listeners, k, cb)

\* C32 (registry cleanup): after any sequence of subscribe and unsubscribe
\* calls the registry has an entry for K exactly when a callback is
\* registered under K, and an unsubscribe removes the registration of its
\* own callback under its own key and leaves every other registration, with
\* its options, as it was.
C32_RegistryCleanup ==
    /\ []NoEmptyEntry
    /\ [][op'.name \in {"unsubscribe", "unsubscribeAgain"} =>
            /\ ~Registered(listeners', op'.key, op'.cb)
            /\ \A k \in Keys, cb \in Callbacks :
                  (k # op'.key \/ cb # op'.cb) =>
                      /\ Registered(listeners', k, cb) <=> Registered(listeners, k, cb)
                      /\ Registered(listeners, k, cb) =>
                            OptionsOf(listeners', k, cb) = OptionsOf(listeners, k, cb)]_vars

\* The last callback of k1 was unsubscribed: the registry has no entry for
\* k1 any more, while the same callback is still registered under k2.
C32_Witness ==
    /\ op.name = "unsubscribe" /\ op.key = "k1"
    /\ ~Has(listeners, "k1")
    /\ Registered(listeners, "k2", op.cb)

\* How many registrations the callback cb has under key.
Registrations(ls, key, cb) ==
    Cardinality({j \in DOMAIN Get(ls, key) : Get(ls, key)[j].cb = cb})

\* C33 (one registration per callback and key): a callback has at most one
\* registration under a key; after subscribe(K, cb, options) it has exactly
\* one, with the options of that call; and a notification pass for a key
\* (notify or a storage event) calls a callback at most once.
C33_SingleRegistration ==
    /\ \A k \in Keys, cb \in Callbacks : Registrations(listeners, k, cb) <= 1
    /\ (op.name = "subscribe" /\ op.arg.kind = "request") =>
          /\ Registrations(listeners, op.key, op.cb) = 1
          /\ OptionsOf(listeners, op.key, op.cb) =
                [cb |-> op.cb,
                 crossTabSync |-> (op.arg.v.crossTabSync # "false"),
                 pollingIntervalMs |-> normalizePollingInterval(op.arg.v.pollingIntervalMs)]
    /\ op.name \in {"setStoragePersistedState", "storageEvent"} =>
          \A cb \in Callbacks : TimesCalled(op.calls, cb) <= 1

\* The only registration of the engine was made by a subscribe that asked
\* for no polling and stopped the timer: the callback was registered with
\* polling before, and has the later options now.
C33_Witness ==
    /\ op.name = "subscribe" /\ op.arg.kind = "request"
    /\ op.arg.v.pollingIntervalMs = Req("null", 0)
    /\ Len(AllOptions(listeners)) = 1
    /\ op.stopped # <<>>
    /\ OptionsOf(listeners, op.key, op.cb).pollingIntervalMs = NullMs

\* C34 (key independence): a notify or a storage event for K calls only
\* callbacks registered under K and changes no snapshot cache entry; a tick
\* calls no callback of a key whose stored value equals its snapshot entry,
\* and leaves that key's entry as it was.
C34_KeyIndependence ==
    [][/\ op'.name \in {"setValue", "removeItem", "setStoragePersistedState", "storageEvent"} =>
            /\ \A i \in DOMAIN op'.calls : Registered(listeners, op'.key, op'.calls[i].cb)
            /\ snapshotCache' = snapshotCache
       /\ op'.name = "tick" =>
            \A k \in Keys :
                storage[k] = MapGet(snapshotCache, k) =>
                    /\ MapGet(snapshotCache', k) = MapGet(snapshotCache, k)
                    /\ \A cb \in Callbacks :
                          Registered(listeners, k, cb) => TimesCalled(op'.calls, cb) = 0]_vars

\* A tick found k1 changed and called its observer, while the observer of
\* k2 was left alone with the value it read last.
C34_Witness ==
    /\ op.name = "tick" /\ Len(op.calls) = 1
    /\ Registered(listeners, "k1", op.calls[1].cb)
    /\ \E cb \in Callbacks :
          /\ Registered(listeners, "k2", cb)
          /\ OptionsOf(listeners, "k2", cb).pollingIntervalMs # NullMs
          /\ MapGet(snapshotCache, "k2") = storage["k2"]

\* Nothing is polled: no timer, no handle, no snapshot cache entry.
NothingPolled ==
    /\ timers = {}
    /\ pollingIntervalId = NoTimer
    /\ pollingIntervalMsActive = NullMs
    /\ snapshotCache = EmptyMap

\* C35 (end of polling): while no registration has polling enabled there is
\* no timer and the snapshot cache is empty, and while one has there is a
\* timer; the unsubscribe that removes the last polling-enabled registration
\* stops the one active timer and starts none; a tick fires only while a
\* polling-enabled registration exists.
C35_PollingEnds ==
    /\ [](/\ EnabledIntervals(listeners) = {} => NothingPolled
          /\ EnabledIntervals(listeners) # {} => timers # {})
    /\ [][/\ (/\ op'.name = "unsubscribe"
               /\ EnabledIntervals(listeners) # {}
               /\ EnabledIntervals(listeners') = {})
                  => /\ op'.stopped = <<pollingIntervalId>>
                     /\ op'.started = <<>>
                     /\ NothingPolled'
          /\ op'.name = "tick" => EnabledIntervals(listeners) # {}]_vars

\* The last polling observer has gone and took the timer with it, while an
\* observer without polling is still registered.
C35_Witness ==
    /\ op.name = "unsubscribe" /\ op.stopped # <<>>
    /\ EnabledIntervals(listeners) = {}
    /\ AllOptions(listeners) # <<>>
    /\ NothingPolled

\* C36 (no call after unsubscribe): a call of the closure of subscribe(K, cb)
\* leaves cb unregistered under K; only a subscribe of cb to K registers it
\* under K again; a notify or a storage event for K calls only callbacks
\* registered under K, and a tick calls only callbacks registered with
\* polling under a key whose stored value differs from its snapshot entry.
C36_NoCallAfterUnsubscribe ==
    [][/\ op'.name \in {"unsubscribe", "unsubscribeAgain"} =>
            ~Registered(listeners', op'.key, op'.cb)
       /\ \A k \in Keys, cb \in Callbacks :
            (~Registered(listeners, k, cb) /\ Registered(listeners', k, cb)) =>
                (op'.name = "subscribe" /\ op'.key = k /\ op'.cb = cb)
       /\ op'.name \in {"setStoragePersistedState", "storageEvent"} =>
            \A i \in DOMAIN op'.calls : Registered(listeners, op'.key, op'.calls[i].cb)
       /\ op'.name = "tick" =>
            \A i \in DOMAIN op'.calls :
                \E k \in Keys :
                    /\ Registered(listeners, k, op'.calls[i].cb)
                    /\ OptionsOf(listeners, k, op'.calls[i].cb).pollingIntervalMs # NullMs
                    /\ storage[k] # MapGet(snapshotCache, k)]_vars

\* A local write of k1 notified one callback and left out the other, whose
\* closure was called after its last subscribe.
C36_Witness ==
    /\ op.name = "setStoragePersistedState" /\ op.key = "k1"
    /\ Len(op.calls) = 1
    /\ \E cb \in Callbacks :
          /\ [key |-> "k1", cb |-> cb, called |-> TRUE] \in closures
          /\ [key |-> "k1", cb |-> cb, called |-> FALSE] \notin closures
          /\ ~Registered(listeners, "k1", cb)
          /\ op.calls[1].cb # cb

\* codec.decode raised on the string the key held when the setter was called.
DecodeRaised == op.prev # Null /\ Decode(op.codec, op.prev) = Throw

\* The setter got as far as adapter.setItem, on a medium that was full.
SetItemRaised ==
    /\ ~DecodeRaised
    /\ op.arg.v \notin {JNull, JUndefined}
    /\ Encode(op.codec, op.arg.v) \notin {Null, Undefined}
    /\ shadow.full

C37_WitnessDecode ==
    /\ op.name = "setStoragePersistedState" /\ DecodeRaised
    /\ Len(Get(listeners, op.key)) >= 1

\* The callbacks registered under the key with polling enabled.
PollingCallbacks(ls, k) ==
    {cb \in Callbacks :
        Registered(ls, k, cb) /\ OptionsOf(ls, k, cb).pollingIntervalMs # NullMs}

\* C38 (first tick): a tick that polls a key with no snapshot cache entry
\* calls each polling-enabled observer of the key once, whatever the key
\* holds and whatever the observers read when they subscribed; every tick
\* leaves each key it polls with an entry equal to the stored value, and a
\* tick that finds such an entry calls no observer of the key.
C38_FirstTick ==
    [][op'.name = "poll" =>
        \A k \in PolledKeys(listeners) :
            /\ k \notin DOMAIN snapshotCache =>
                   \A cb \in PollingCallbacks(listeners, k) : TimesCalled(op'.calls, cb) = 1
            /\ k \in DOMAIN snapshotCache' /\ snapshotCache'[k] = storage[k]
            /\ (k \in DOMAIN snapshotCache /\ snapshotCache[k] = storage[k]) =>
                   \A cb \in Callbacks :
                       Registered(listeners, k, cb) => TimesCalled(op'.calls, cb) = 0]_vars

\* A tick called both observers while no key held anything: each of them
\* read the absent key once more.
C38_Witness ==
    /\ op.name = "poll" /\ Len(op.calls) = 2
    /\ \A k \in Keys : storage[k] = Null
    /\ \A i \in DOMAIN op.calls : op.calls[i].read = Null

\* C39 (the engine only reads): a subscribe, an unsubscribe, a storage event
\* and a tick leave every key of every medium as it was, and a subscribe or
\* unsubscribe calls no callback; a write path changes at most the key it
\* was called for, so the notify it ends with writes nothing; the medium
\* changes only by a write path or from outside.
C39_EngineOnlyReads ==
    [][/\ op'.name \in {"subscribe", "unsubscribe", "storageEvent", "tick"} =>
            /\ storage' = storage
            /\ \A m \in DOMAIN others : others'[m].storage = others[m].storage
       /\ op'.name \in {"subscribe", "unsubscribe"} =>
            /\ op'.calls = <<>>
            /\ \A cb \in Callbacks \ {op'.cb} : seen'[cb] = seen[cb]
       /\ op'.name \in {"setValue", "removeItem", "setStoragePersistedState"} =>
            \A k \in Keys \ {op'.key} : storage'[k] = storage[k]
       /\ storage' # storage =>
            op'.name \in {"setValue", "removeItem", "setStoragePersistedState", "external"}]_vars

\* A hook has unmounted from a key that holds a value and that another hook,
\* which was not called, still observes.
C39_Witness ==
    /\ op.name = "unsubscribe" /\ storage[op.key] # Null
    /\ \E cb \in Callbacks \ {op.cb} :
          Registered(listeners, op.key, cb) /\ seen[cb] = storage[op.key]

\* What a read of k through the fallback-wrapping adapter is to return: the
\* secondary's entry when it has one, else the primary's.
ShadowRead(p, sh, k) == IF sh.memory[k] # Undefined THEN sh.memory[k] ELSE p[k]

\* C40 (fallback shadow invariant): a write of K through the adapter that
\* the primary rejects leaves the secondary with the written text under K;
\* a write the primary accepts and a delete leave the secondary with no
\* entry for K; no other step changes the secondary, so it holds an entry
\* for K exactly when the last write or delete of K was a rejected write.
\* Every read through the adapter, at a mount or by a notified hook,
\* returns the secondary's entry when there is one and the primary's
\* otherwise.
C40_ShadowInvariant ==
    [][/\ \A k \in Keys :
            LET write == op'.name = "setValue" /\ op'.key = k /\ op'.ok
                             /\ op'.arg.v \notin {JNull, JUndefined}
                             /\ Encode(op'.codec, op'.arg.v) \notin {Null, Undefined}
                delete == \/ op'.name = "removeItem" /\ op'.key = k
                          \/ op'.name = "setValue" /\ op'.key = k /\ op'.ok /\ ~write
            IN /\ (write /\ shadow.full) =>
                      shadow'.memory[k] = Encode(op'.codec, op'.arg.v)
               /\ (write /\ ~shadow.full) => shadow'.memory[k] = Undefined
               /\ delete => shadow'.memory[k] = Undefined
               /\ (~write /\ ~delete) => shadow'.memory[k] = shadow.memory[k]
       /\ op'.name \in {"setValue", "removeItem"} =>
            \A i \in DOMAIN op'.calls :
                op'.calls[i].read = ShadowRead(storage', shadow', op'.key)
       /\ op'.name = "subscribe" =>
            seen'[op'.cb] = ShadowRead(storage, shadow, op'.key)]_vars

\* The primary accepted "a" and later rejected "b": the secondary holds "b"
\* over the primary's "a", and a hook mounted since has read "b".
C40_Witness ==
    /\ op.name = "subscribe"
    /\ storage[op.key] = "a" /\ shadow.memory[op.key] = "b"
    /\ seen[op.cb] = "b"

====
